---- MODULE Spec2Model ----
(***************************************************************************)
(* The EventBus of src/config/lithium/decorators/delay.ts (lines 281-945): *)
(* the channel registry, the publish pipeline with its hooks, the          *)
(* debounce/throttle rule of onChange, TTL expiry, subscriptions and the   *)
(* storage adapter.                                                        *)
(*                                                                         *)
(* Every EventBus operation is synchronous, so one top-level call is one   *)
(* action.  Hooks and subscribers are caller code that may call back into  *)
(* the EventBus: each is a behaviour (Beh) that the operators below        *)
(* execute inside the call that invokes it, so a reentrant call runs to    *)
(* completion in the middle of the outer one, as it does on the JS stack.  *)
(* The operators work on a record s of the EventBus state and return the   *)
(* state after the call; s.exc says that an exception is propagating.      *)
(***************************************************************************)
EXTENDS Integers, Sequences, FiniteSets, TLC

\* ---------------------------------------------------------------- bounds
Horizon == 3      \* the clock runs from Epoch to Epoch + Horizon
MaxInst == 2      \* top-level calls create channels while fewer exist
MaxDepth == 2     \* nesting of reentrant calls before the JS stack is exhausted
MaxLsn == 2       \* on() and once() are called while fewer closures exist

\* Date.now() when the page starts (milliseconds since 1970, never small).
Epoch == 10

\* ---------------------------------------------------------------- values
Undef == [tag |-> "undefined", n |-> 0]
Null == [tag |-> "null", n |-> 0]
NaN == [tag |-> "NaN", n |-> 0]
Num(n) == [tag |-> "number", n |-> n]

Present(v) == v # Undef /\ v # Null

Names == {"a", "b"}
PubValues == {Undef, Null, Num(-1), Num(1)}
Callbacks == {"c1", "c2"}
Tiers == {"memory", "session", "local"}
Keys == {"lithium:a", "lithium:b"}
Topics == {"t", "u"}
Listeners == {"f1", "f2"}

\* ---------------------------------------------------------------- state
VARIABLES
  channels,     \* EventBus.channels: name -> instance id, 0 when absent
  inst,         \* every Channel object ever created, by instance id
                \* (alive: it has not been through clear(), history)
  timers,       \* pending setTimeout timers
  store,        \* sessionStorage and localStorage: <<tier, key>> -> string
  faulty,       \* the tiers whose Storage object throws on every access
  unsubs,       \* unsubscribe functions handed out: <<instance id, callback>>
  initialized,  \* EventBus.initialized
  unloadHooks,  \* number of beforeunload listeners registered
  topics,       \* EventBus.eventListeners: topic -> Set object id, 0 when absent
  lsets,        \* every listener Set object ever created, by id
  lsns,         \* every wrappedListener closure on() created, by id
  now,          \* Date.now()
  last,         \* the last top-level call (history)
  hist          \* instance id -> what its hooks have been called with (history)

vars ==
  <<channels, inst, timers, store, faulty, unsubs, initialized, unloadHooks,
    topics, lsets, lsns, now, last, hist>>

\* ---------------------------------------------------------------- caller code
\* What a hook or a subscriber does when it is invoked.
Beh(k, name, v) == [k |-> k, name |-> name, v |-> v]
None == Beh("none", "", Undef)        \* the hook is not configured
Noop == Beh("noop", "", Undef)
Throw == Beh("throw", "", Undef)
RePublish(name, v) == Beh("publish", name, v)
ReClear(name) == Beh("clear", name, Undef)
ReEmit(name, v) == Beh("emit", name, v)
CallOff(name) == Beh("off", name, Undef)
\* if (EventBus.getValue(name) !== v) EventBus.publish(name, v)
Settle(name, v) == Beh("settle", name, v)
\* A function of the caller, passed where a value goes.
Fn(f) == [tag |-> f, n |-> 0]
CallSubscribe(name, cb) == Beh("subscribe", name, Fn(cb))
CallUnsubscribe(name, cb) == Beh("unsubscribe", name, Fn(cb))
CallOn(name, fn) == Beh("on", name, Fn(fn))
CallUnlisten(name, fn) == Beh("unlisten", name, Fn(fn))

\* validate: (value) => boolean.  "positive" is x => x > 0, "strict" is
\* x => x.valueOf() > 0.
Validate(kind, v) ==
  IF kind \in {"positive", "strict"} THEN v.tag = "number" /\ v.n > 0 ELSE TRUE

\* The caller's function throws: x.valueOf() of undefined or null is a
\* TypeError.
Throws(kind, v) == kind = "strict" /\ v \in {Undef, Null}

\* transform: (value) => value.  "double" is x => x * 2 on JS values,
\* "strict" is x => x.valueOf().
Transform(kind, v) ==
  IF kind # "double" THEN v
  ELSE IF v.tag = "number" THEN Num(2 * v.n)
  ELSE IF v = Null THEN Num(0)
  ELSE NaN

\* The subscriber functions of the callers: c3 clears the channel it is
\* subscribed to, c4 runs the unsubscribe function of c1, c5 subscribes c1,
\* c6 publishes 2 to its channel unless that is its value.
CallbackBeh(cb) ==
  CASE cb = "c2" -> Throw
    [] cb = "c6" -> Settle("a", Num(2))
    [] cb = "c3" -> ReClear("a")
    [] cb = "c4" -> CallUnsubscribe("a", "c1")
    [] cb = "c5" -> CallSubscribe("a", "c1")
    [] OTHER -> Noop

\* ---------------------------------------------------------------- storage
NoEntry == "<none>"

\* JSON.stringify followed by the string conversion of Storage.setItem.
Stringify(v) ==
  IF v = Undef THEN "undefined"
  ELSE IF v = Null \/ v = NaN THEN "null"
  ELSE ToString(v.n)

ParseRange == -4..4

\* JSON.parse; Undef stands for the SyntaxError that getFromStorage catches.
Parse(raw) ==
  IF raw = "null" THEN Null
  ELSE IF \E n \in ParseRange : ToString(n) = raw
       THEN Num(CHOOSE n \in ParseRange : ToString(n) = raw)
       ELSE Undef

\* A Storage object that throws (access denied, quota exceeded): the three
\* methods catch and log.
GetFromStorage(s, key, storage) ==
  IF storage = "memory" \/ storage \in s.faulty THEN Undef
  ELSE LET raw == s.store[<<storage, key>>]
       IN IF raw # NoEntry /\ raw # "" THEN Parse(raw) ELSE Undef

\* setItem(key, JSON.stringify(value)); storage "memory" writes nothing.
SaveToStorage(s, key, value, storage) ==
  IF storage = "memory" \/ storage \in s.faulty THEN s
  ELSE [s EXCEPT !.store[<<storage, key>>] = Stringify(value)]

RemoveFromStorage(s, key, storage) ==
  IF storage = "memory" \/ storage \in s.faulty THEN s
  ELSE [s EXCEPT !.store[<<storage, key>>] = NoEntry]

\* ---------------------------------------------------------------- channel configuration
\* ChannelConfig; ttl, debounce and throttle 0 and storageKey "" stand for
\* "not given".
NoConfig ==
  [initialValue |-> Undef, storage |-> "memory", storageKey |-> "",
   ttl |-> 0, autoCleanup |-> FALSE,
   onChange |-> None, onInit |-> None, onClear |-> None,
   validate |-> "none", transform |-> "none",
   debounce |-> 0, throttle |-> 0]

DefaultKey(name) == "lithium:" \o name

\* ---------------------------------------------------------------- timers
\* The browser's timer table: a timer is pending while it is in s.timers.
\* Handles are never reused while something still refers to them.
UsedHandles(s) ==
  {t.h : t \in s.timers}
    \cup {s.inst[i].timeoutId : i \in DOMAIN s.inst}
    \cup {s.inst[i].onChangeDebounceTimer : i \in DOMAIN s.inst}
    \cup {s.lsns[w].debounceTimer : w \in DOMAIN s.lsns}

FreshHandle(s) ==
  CHOOSE h \in 1..(Cardinality(UsedHandles(s)) + 1) :
    /\ h \notin UsedHandles(s)
    /\ \A g \in 1..(h - 1) : g \in UsedHandles(s)

SetTimeout(s, timer) == [s EXCEPT !.timers = @ \cup {timer}]

ClearTimeout(s, h) == [s EXCEPT !.timers = {t \in @ : t.h # h}]

\* ---------------------------------------------------------------- hook calls
\* The log of the running top-level call: which caller code ran, with what;
\* held is what getValue(name) returns to that code.
Event(s, e, id, v, old, cb, d) ==
  [e |-> e, ch |-> id, ln |-> 0, v |-> v, old |-> old, cb |-> cb, d |-> d,
   listed |-> s.channels[s.inst[id].name] = id,
   held |-> IF s.channels[s.inst[id].name] = 0 THEN Undef
            ELSE s.inst[s.channels[s.inst[id].name]].value]

Log(s, e, id, v, old, d) ==
  [s EXCEPT !.log = Append(@, Event(s, e, id, v, old, "", d))]

RECURSIVE Run(_, _, _)

\* try { hook(...) } catch (error) { console.error(...) }
CallHook(s, beh, d) == [Run(s, beh, d) EXCEPT !.exc = FALSE]

\* Set of a channel: insertion ordered; a deleted entry leaves a hole that a
\* running forEach skips (holes are dropped when the top-level call ends).
Hole == "<deleted>"

Members(subs) == {subs[k] : k \in DOMAIN subs} \ {Hole}

SetAdd(subs, cb) == IF cb \in Members(subs) THEN subs ELSE Append(subs, cb)

SetDelete(subs, cb) == [k \in DOMAIN subs |-> IF subs[k] = cb THEN Hole ELSE subs[k]]

SetClear(subs) == [k \in DOMAIN subs |-> Hole]

\* The registry holds the Channel object i.
Listed(s, i) == s.channels[s.inst[i].name] = i

\* ---------------------------------------------------------------- EventBus.init
EventBusInit(s) ==
  IF s.initialized THEN s
  ELSE [s EXCEPT !.unloadHooks = @ + 1, !.initialized = TRUE]

\* ---------------------------------------------------------------- EventBus.channel
IsInitializedValue(value) == value # Undef /\ value # Null

\* channel() without its "already exists" check.
ChannelHasNever(s, channelName) == FALSE

\* The guard of channel(): an existing name returns the existing signal.
ChannelHas(s, channelName) == s.channels[channelName] # 0

\* const { storageKey = `lithium:${channelName}` } = config || {}
StorageKeyOf(channelName, config) ==
  IF config.storageKey = "" THEN DefaultKey(channelName) ELSE config.storageKey

\* channel() that takes what the storage returns whenever a tier is given.
StartValueStoredOnly(s, channelName, config) ==
  IF config.storage # "memory"
  THEN GetFromStorage(s, StorageKeyOf(channelName, config), config.storage)
  ELSE config.initialValue

\* The value a new channel starts with: a stored value wins over initialValue.
StartValue(s, channelName, config) ==
  LET storedValue ==
        GetFromStorage(s, StorageKeyOf(channelName, config), config.storage)
  IN IF storedValue # Undef THEN storedValue ELSE config.initialValue

\* The Channel object; h is the handle its TTL timer gets when ttl is given.
NewChannel(channelName, config, value, h) ==
  [name |-> channelName, value |-> value, storage |-> config.storage,
   storageKey |-> StorageKeyOf(channelName, config), subscribers |-> <<>>,
   ttl |-> config.ttl, autoCleanup |-> config.autoCleanup,
   timeoutId |-> IF config.ttl # 0 THEN h ELSE 0,
   createdAt |-> now, config |-> config,
   isInitialized |-> IsInitializedValue(value),
   onChangeDebounceTimer |-> 0, onChangeLastCall |-> 0,
   alive |-> TRUE]

\* this.channels.set(channelName, channel)
Register(s, channelName, channel) ==
  [s EXCEPT !.inst = Append(@, channel),
            !.channels[channelName] = Len(s.inst) + 1]

\* if (ttl) channel.timeoutId = setTimeout(() => this.clear(channelName), ttl)
StartTtl(s, channelName, id) ==
  IF s.inst[id].ttl # 0
  THEN SetTimeout(s, [h |-> s.inst[id].timeoutId, kind |-> "ttl",
                      name |-> channelName, ch |-> id, ln |-> 0,
                      due |-> now + s.inst[id].ttl,
                      new |-> Undef, old |-> Undef])
  ELSE s

\* if (isInitialized && config?.onInit) try { config.onInit(value) } catch ...
InitOnCreate(s, id, d) ==
  IF s.inst[id].isInitialized /\ s.inst[id].config.onInit # None
  THEN CallHook(Log(s, "onInit", id, s.inst[id].value, Undef, d),
                s.inst[id].config.onInit, d)
  ELSE s

\* The part of channel() that creates the Channel object.
CreateChannel(s, channelName, config, d) ==
  InitOnCreate(
    StartTtl(
      Register(s, channelName,
               NewChannel(channelName, config,
                          StartValue(s, channelName, config), FreshHandle(s))),
      channelName, Len(s.inst) + 1),
    Len(s.inst) + 1, d)

Channel(s, channelName, config, d) ==
  IF ChannelHas(s, channelName) THEN EventBusInit(s)
  ELSE CreateChannel(EventBusInit(s), channelName, config, d)

\* ---------------------------------------------------------------- EventBus.executeOnChange
ExecuteCallback(s, id, newValue, oldValue, d) ==
  CallHook(Log(s, "onChange", id, newValue, oldValue, d),
           s.inst[id].config.onChange, d)

\* if (channel.onChangeDebounceTimer) clearTimeout(channel.onChangeDebounceTimer)
CancelPending(s, id) ==
  IF s.inst[id].onChangeDebounceTimer # 0
  THEN ClearTimeout(s, s.inst[id].onChangeDebounceTimer)
  ELSE s

\* channel.onChangeDebounceTimer = setTimeout(executeCallback, config.debounce)
StartDebounce(s, channelName, id, newValue, oldValue) ==
  SetTimeout([s EXCEPT !.inst[id].onChangeDebounceTimer = FreshHandle(s)],
             [h |-> FreshHandle(s), kind |-> "debounce", name |-> channelName,
              ch |-> id, ln |-> 0, due |-> now + s.inst[id].config.debounce,
              new |-> newValue, old |-> oldValue])

\* The debounce branch without the clearTimeout of the pending timer.
DebounceNoCancel(s, channelName, id, newValue, oldValue) ==
  StartDebounce(s, channelName, id, newValue, oldValue)

\* The debounce branch handing the old value of the first publish of a burst
\* on to the timers that replace the first one.
DebounceKeepsFirstOld(s, channelName, id, newValue, oldValue) ==
  LET pending == {t \in s.timers : t.h = s.inst[id].onChangeDebounceTimer}
  IN StartDebounce(CancelPending(s, id), channelName, id, newValue,
                   IF pending = {} THEN oldValue
                   ELSE (CHOOSE t \in pending : TRUE).old)

\* The debounce branch: cancel the pending timer, start a new one.
DebounceOnChange(s, channelName, id, newValue, oldValue) ==
  StartDebounce(CancelPending(s, id), channelName, id, newValue, oldValue)

\* The throttle branch recording the time of every call, run or dropped.
ThrottleStampsDropped(s, id, newValue, oldValue, d) ==
  LET lastCall == s.inst[id].onChangeLastCall
      timeSinceLastCall == now - lastCall
      s1 == [s EXCEPT !.inst[id].onChangeLastCall = now]
  IN IF timeSinceLastCall >= s.inst[id].config.throttle
     THEN ExecuteCallback(s1, id, newValue, oldValue, d)
     ELSE s1

\* The throttle branch: run now if throttle ms passed since the last run.
ThrottleOnChange(s, id, newValue, oldValue, d) ==
  LET lastCall == s.inst[id].onChangeLastCall
      timeSinceLastCall == now - lastCall
  IN IF timeSinceLastCall >= s.inst[id].config.throttle
     THEN ExecuteCallback([s EXCEPT !.inst[id].onChangeLastCall = now],
                          id, newValue, oldValue, d)
     ELSE s

\* executeOnChange testing config.throttle before config.debounce.
ExecuteOnChangeThrottleFirst(s, channelName, id, newValue, oldValue, d) ==
  LET config == s.inst[id].config
  IN IF config.onChange = None THEN s
     ELSE IF config.throttle # 0
          THEN ThrottleOnChange(s, id, newValue, oldValue, d)
     ELSE IF config.debounce # 0
          THEN DebounceOnChange(s, channelName, id, newValue, oldValue)
     ELSE ExecuteCallback(s, id, newValue, oldValue, d)

ExecuteOnChange(s, channelName, id, newValue, oldValue, d) ==
  LET config == s.inst[id].config
  IN IF config.onChange = None THEN s
     ELSE IF config.debounce # 0
          THEN DebounceOnChange(s, channelName, id, newValue, oldValue)
     ELSE IF config.throttle # 0
          THEN ThrottleOnChange(s, id, newValue, oldValue, d)
     ELSE ExecuteCallback(s, id, newValue, oldValue, d)

\* ---------------------------------------------------------------- EventBus.publish
RECURSIVE NotifyUnguarded(_, _, _, _, _)

\* The forEach of publish without the try/catch around each callback: the
\* first exception ends the iteration and leaves publish.
NotifyUnguarded(s, id, k, value, d) ==
  LET subs == s.inst[id].subscribers
  IN IF k > Len(subs) \/ s.exc THEN s
     ELSE IF subs[k] = Hole THEN NotifyUnguarded(s, id, k + 1, value, d)
     ELSE NotifyUnguarded(Run([s EXCEPT !.log =
                                  Append(@, Event(s, "notify", id, value, Undef,
                                                  subs[k], d))],
                              CallbackBeh(subs[k]), d),
                          id, k + 1, value, d)

RECURSIVE NotifyCurrent(_, _, _, _, _)

\* publish() that hands each subscriber the value the channel holds when its
\* turn comes: callback(channel.signal.get()).
NotifyCurrent(s, id, k, value, d) ==
  LET subs == s.inst[id].subscribers
  IN IF k > Len(subs) THEN s
     ELSE IF subs[k] = Hole THEN NotifyCurrent(s, id, k + 1, value, d)
     ELSE NotifyCurrent(CallHook([s EXCEPT !.log =
                                    Append(@, Event(s, "notify", id,
                                                    s.inst[id].value, Undef,
                                                    subs[k], d))],
                                 CallbackBeh(subs[k]), d),
                        id, k + 1, value, d)

RECURSIVE Notify(_, _, _, _, _)

\* channel.subscribers.forEach(callback => { try { callback(v) } catch ... })
\* on the live Set: k is the position the iteration has reached.
Notify(s, id, k, value, d) ==
  LET subs == s.inst[id].subscribers
  IN IF k > Len(subs) THEN s
     ELSE IF subs[k] = Hole THEN Notify(s, id, k + 1, value, d)
     ELSE Notify(CallHook([s EXCEPT !.log =
                             Append(@, Event(s, "notify", id, value, Undef,
                                             subs[k], d))],
                          CallbackBeh(subs[k]), d),
                 id, k + 1, value, d)

\* publish() that ignores what validate returned.
AcceptsAnything(config, value) == TRUE

\* Step 1 of publish: does validate let the value through?
Accepts(config, value) ==
  config.validate = "none" \/ Validate(config.validate, value)

\* publish() that stores the value as it was passed.
TransformSkipped(config, value) == value

\* Step 2 of publish.
TransformedValue(config, value) == Transform(config.transform, value)

\* Step 5 of publish with the flag set only after onInit has returned.
InitOnPublishLate(s, id, transformedValue, d) ==
  IF ~s.inst[id].isInitialized /\ transformedValue # Undef /\ transformedValue # Null
  THEN LET config == s.inst[id].config
           s1 == IF config.onInit # None
                 THEN CallHook(Log(s, "onInit", id, transformedValue, Undef, d),
                               config.onInit, d)
                 ELSE s
       IN [s1 EXCEPT !.inst[id].isInitialized = TRUE]
  ELSE s

\* Step 5 of publish: the first present value initializes the channel.
InitOnPublish(s, id, transformedValue, d) ==
  IF ~s.inst[id].isInitialized /\ transformedValue # Undef /\ transformedValue # Null
  THEN LET s1 == [s EXCEPT !.inst[id].isInitialized = TRUE]
           config == s.inst[id].config
       IN IF config.onInit # None
          THEN CallHook(Log(s1, "onInit", id, transformedValue, Undef, d),
                        config.onInit, d)
          ELSE s1
  ELSE s

\* The call of config.transform, when there is one.
TransformStep(s, id, value, d) ==
  IF s.inst[id].config.transform # "none"
  THEN Log(s, "transform", id, value, Undef, d)
  ELSE s

\* publish() whose signal.set is deferred to the end of the call.
SignalSetDeferred(s, id, transformedValue, d) ==
  Log(s, "set", id, transformedValue, s.inst[id].value, d)

\* Step 3 of publish: channel.signal.set(transformedValue)
SignalSet(s, id, transformedValue, d) ==
  Log([s EXCEPT !.inst[id].value = transformedValue],
       "set", id, transformedValue, s.inst[id].value, d)

\* Step 4 of publish: write through to the channel's storage tier.
PersistValue(s, id, transformedValue, d) ==
  IF s.inst[id].storage # "memory"
  THEN SaveToStorage(Log(s, "write", id, transformedValue, Undef, d),
                     s.inst[id].storageKey, transformedValue,
                     s.inst[id].storage)
  ELSE s

\* Step 6 of publish.
OnChangeStep(s, channelName, id, transformedValue, oldValue, d) ==
  IF s.inst[id].config.onChange # None
  THEN ExecuteOnChange(s, channelName, id, transformedValue, oldValue, d)
  ELSE s

\* publish() whose storage write is not caught: a failing write leaves
\* publish after signal.set with the exception.
DeliverAbortsOnWriteFailure(s, channelName, id, transformedValue, oldValue, d) ==
  IF s.inst[id].storage # "memory" /\ s.inst[id].storage \in s.faulty
  THEN [SignalSet(s, id, transformedValue, d) EXCEPT !.exc = TRUE]
  ELSE Notify(
         OnChangeStep(
           InitOnPublish(
             PersistValue(SignalSet(s, id, transformedValue, d),
                          id, transformedValue, d),
             id, transformedValue, d),
           channelName, id, transformedValue, oldValue, d),
         id, 1, transformedValue, d)

\* Steps 3 to 7 of publish, in the order of the code.
Deliver(s, channelName, id, transformedValue, oldValue, d) ==
  Notify(
    OnChangeStep(
      InitOnPublish(
        PersistValue(SignalSet(s, id, transformedValue, d),
                     id, transformedValue, d),
        id, transformedValue, d),
      channelName, id, transformedValue, oldValue, d),
    id, 1, transformedValue, d)

\* publish() that restarts the TTL timer of the channel it writes to.
PublishRenewsTtl(s, channelName, id, value, d) ==
  LET s5 == Deliver(TransformStep(s, id, value, d), channelName, id,
                    TransformedValue(s.inst[id].config, value),
                    s.inst[id].value, d)
      h == s5.inst[id].timeoutId
  IN IF h # 0 /\ \E t \in s5.timers : t.h = h
     THEN SetTimeout(ClearTimeout(s5, h),
                     [h |-> h, kind |-> "ttl", name |-> channelName, ch |-> id,
                      ln |-> 0, due |-> now + s5.inst[id].ttl,
                      new |-> Undef, old |-> Undef])
     ELSE s5

\* publish() that sets the value before it calls transform.
PublishSetsFirst(s, channelName, id, value, d) ==
  IF Throws(s.inst[id].config.transform, value)
  THEN [SignalSet(TransformStep(s, id, value, d), id, value, d)
          EXCEPT !.exc = TRUE]
  ELSE Deliver(TransformStep(s, id, value, d), channelName, id,
               TransformedValue(s.inst[id].config, value), s.inst[id].value, d)

\* publish on an existing channel, after validate accepted the value.
PublishAccepted(s, channelName, id, value, d) ==
  IF Throws(s.inst[id].config.transform, value)
  THEN [TransformStep(s, id, value, d) EXCEPT !.exc = TRUE]
  ELSE Deliver(TransformStep(s, id, value, d), channelName, id,
               TransformedValue(s.inst[id].config, value), s.inst[id].value, d)

\* publish() whose new-channel branch lacks the return statement.
PublishFallsThrough(s, channelName, value, d) ==
  LET s1 == IF s.channels[channelName] = 0
            THEN Channel(s, channelName, [NoConfig EXCEPT !.initialValue = value], d)
            ELSE s
      id == s1.channels[channelName]
  IN IF ~Accepts(s1.inst[id].config, value) THEN s1
     ELSE PublishAccepted(s1, channelName, id, value, d)

\* validate or transform throws for the value.
PublishThrows(config, value) ==
  \/ Throws(config.validate, value)
  \/ Accepts(config, value) /\ Throws(config.transform, value)

Publish(s, channelName, value, d) ==
  LET id == s.channels[channelName]
  IN IF id = 0
     THEN Channel(s, channelName, [NoConfig EXCEPT !.initialValue = value], d)
     ELSE LET s0 == IF s.inst[id].config.validate # "none"
                     THEN Log(s, "validate", id, value, Undef, d) ELSE s
          IN IF Throws(s.inst[id].config.validate, value)
             THEN [s0 EXCEPT !.exc = TRUE]
             ELSE IF ~Accepts(s.inst[id].config, value) THEN s0
             ELSE PublishAccepted(s0, channelName, id, value, d)

\* ---------------------------------------------------------------- EventBus.clear
\* Step 1 of clear: try { channel.config.onClear() } catch ...
RunOnClear(s, id, d) ==
  IF s.inst[id].config.onClear # None
  THEN CallHook(Log(s, "onClear", id, Undef, Undef, d),
                s.inst[id].config.onClear, d)
  ELSE s

\* Step 2 of clear: if (channel.timeoutId) clearTimeout(channel.timeoutId)
CancelTtl(s, id) ==
  IF s.inst[id].timeoutId # 0 THEN ClearTimeout(s, s.inst[id].timeoutId) ELSE s

\* Step 3 of clear: cancel the pending debounce timer.
CancelDebounce(s, id) ==
  IF s.inst[id].onChangeDebounceTimer # 0
  THEN ClearTimeout(s, s.inst[id].onChangeDebounceTimer)
  ELSE s

\* clear() that leaves the persisted entry in place.
RemoveKeepsEntry(s, channelName, id) ==
  [s EXCEPT !.inst[id].subscribers = SetClear(@),
            !.channels[channelName] = 0,
            !.inst[id].alive = FALSE]

\* Steps 4 to 6 of clear: storage entry, subscribers, registry entry.
Remove(s, channelName, id) ==
  [RemoveFromStorage(s, s.inst[id].storageKey, s.inst[id].storage)
     EXCEPT !.inst[id].subscribers = SetClear(@),
            !.channels[channelName] = 0,
            !.inst[id].alive = FALSE]

\* clear() whose onClear call is not caught: an exception of the hook leaves
\* clear before any of its other steps.
ClearAbortsOnThrow(s, channelName, id, d) ==
  LET s1 == IF s.inst[id].config.onClear # None
            THEN Run(Log(s, "onClear", id, Undef, Undef, d),
                     s.inst[id].config.onClear, d)
            ELSE s
  IN IF s1.exc THEN s1
     ELSE Remove(CancelDebounce(CancelTtl(s1, id), id), channelName, id)

\* clear() of the channel object id that the registry holds under the name.
ClearChannel(s, channelName, id, d) ==
  Remove(CancelDebounce(CancelTtl(RunOnClear(s, id, d), id), id),
         channelName, id)

\* clear() that removes the channel from the registry before it runs onClear.
ClearDeletesFirst(s, channelName, d) ==
  IF s.channels[channelName] = 0 THEN s
  ELSE ClearChannel([s EXCEPT !.channels[channelName] = 0,
                              !.inst[s.channels[channelName]].alive = FALSE],
                    channelName, s.channels[channelName], d)

\* clear() without its "no such channel" return: reading channel.config of
\* undefined throws a TypeError.
ClearUnguarded(s, channelName, d) ==
  IF s.channels[channelName] = 0 THEN [s EXCEPT !.exc = TRUE]
  ELSE ClearChannel(s, channelName, s.channels[channelName], d)

Clear(s, channelName, d) ==
  IF s.channels[channelName] = 0 THEN s
  ELSE ClearChannel(s, channelName, s.channels[channelName], d)

\* ---------------------------------------------------------------- EventBus.clearAll
\* Map.forEach on the live registry: entries are visited in insertion order,
\* which is the order of the instance ids; an entry deleted before its turn is
\* skipped and an entry added during the iteration is visited.
Unvisited(s, after) == {i \in DOMAIN s.inst : i > after /\ Listed(s, i)}

MinOf(S) == CHOOSE x \in S : \A y \in S : x <= y

\* The forEach callback of clearAll(storageOnly) without its tier test.
ClearWhateverTier(s, i, storageOnly, d) == Clear(s, s.inst[i].name, d)

\* The body of the forEach callbacks of clearAll and of the beforeunload
\* listener, for the entry i: storageOnly "" stands for "not given".
ClearIfTier(s, i, storageOnly, d) ==
  IF storageOnly = "" \/ s.inst[i].storage = storageOnly
  THEN Clear(s, s.inst[i].name, d)
  ELSE s

RECURSIVE ClearEach(_, _, _, _)

ClearEach(s, after, storageOnly, d) ==
  IF Unvisited(s, after) = {} THEN s
  ELSE ClearEach(ClearIfTier(s, MinOf(Unvisited(s, after)), storageOnly, d),
                 MinOf(Unvisited(s, after)), storageOnly, d)

ClearAll(s, storageOnly, d) == ClearEach(s, 0, storageOnly, d)

\* The beforeunload listener clearing every channel, persisted or not.
BeforeUnloadClearsAll(s) == ClearEach(s, 0, "", 0)

\* The beforeunload listener that init() registered.
BeforeUnload(s) == ClearEach(s, 0, "memory", 0)

\* The page is loaded again: the static fields of EventBus start from their
\* initializers and every timer of the old page is gone; sessionStorage and
\* localStorage keep their entries.
Restart(s) ==
  [s EXCEPT !.channels = [n \in Names |-> 0], !.inst = <<>>, !.timers = {},
            !.unsubs = {}, !.initialized = FALSE, !.unloadHooks = 0,
            !.topics = [t \in Topics |-> 0], !.lsets = <<>>, !.lsns = <<>>]

\* ---------------------------------------------------------------- EventBus.getValue
GetValue(s, channelName) ==
  IF s.channels[channelName] = 0 THEN Undef
  ELSE s.inst[s.channels[channelName]].value

\* EventBus.listChannels
ListChannels(s) == {n \in Names : s.channels[n] # 0}

\* ---------------------------------------------------------------- EventBus.subscribe
\* subscribe() keeping its subscribers in an array: a callback that is
\* subscribed twice is held twice.
AddSubscriberAgain(s, channelName, callback) ==
  [s EXCEPT !.inst[s.channels[channelName]].subscribers = Append(@, callback),
            !.unsubs = @ \cup {<<s.channels[channelName], callback>>}]

\* channel.subscribers.add(callback), and the function that is returned.
AddSubscriber(s, channelName, callback) ==
  [s EXCEPT !.inst[s.channels[channelName]].subscribers = SetAdd(@, callback),
            !.unsubs = @ \cup {<<s.channels[channelName], callback>>}]

Subscribe(s, channelName, callback, d) ==
  AddSubscriber(IF s.channels[channelName] = 0
                THEN Channel(s, channelName, NoConfig, d) ELSE s,
                channelName, callback)

\* The returned function clearing an autoCleanup channel whoever is left.
UnsubscribeIgnoresSize(s, id, callback, d) ==
  LET s1 == [s EXCEPT !.inst[id].subscribers = SetDelete(@, callback)]
  IN IF s1.inst[id].autoCleanup
     THEN Clear(s1, s1.inst[id].name, d)
     ELSE s1

\* The function subscribe() returned for (channel object id, callback).
Unsubscribe(s, id, callback, d) ==
  LET s1 == [s EXCEPT !.inst[id].subscribers = SetDelete(@, callback)]
  IN IF s1.inst[id].autoCleanup /\ Members(s1.inst[id].subscribers) = {}
     THEN Clear(s1, s1.inst[id].name, d)
     ELSE s1

\* ---------------------------------------------------------------- topics
\* ListenerOptions; debounce and throttle 0 stand for "not given".
NoOptions ==
  [once |-> FALSE, validate |-> "none", transform |-> "none",
   debounce |-> 0, throttle |-> 0]

\* The listener functions of the callers: f3 calls off on its topic, f4 runs
\* the unlisten function of f1, f5 registers f1, f6 emits on its topic.
ListenerBeh(fn) ==
  CASE fn = "f2" -> Throw
    [] fn = "f6" -> ReEmit("t", Num(1))
    [] fn = "f3" -> CallOff("t")
    [] fn = "f4" -> CallUnlisten("t", "f1")
    [] fn = "f5" -> CallOn("t", "f1")
    [] OTHER -> Noop

\* The wrappedListener closures a listener Set holds (0 marks a deleted entry
\* that a running forEach skips).
Registered(members) == {members[k] : k \in DOMAIN members} \ {0}

\* if (!this.eventListeners.has(eventName)) this.eventListeners.set(eventName, new Set())
EnsureTopic(s, eventName) ==
  IF s.topics[eventName] # 0 THEN s
  ELSE [s EXCEPT !.lsets = Append(@, [name |-> eventName, members |-> <<>>]),
                 !.topics[eventName] = Len(s.lsets) + 1]

\* The closure on() creates (debounceTimer, lastCallTime, hasExecuted) and
\* listeners.add(wrappedListener). For a once listener, calls counts the
\* invocations of the caller's listener (up to 2) and first is the payload of
\* the first one (history).
AddListener(s, eventName, listener, options) ==
  [s EXCEPT !.lsns = Append(@, [set |-> s.topics[eventName], name |-> eventName,
                                 fn |-> listener, options |-> options,
                                 debounceTimer |-> 0, lastCallTime |-> 0,
                                 hasExecuted |-> FALSE, calls |-> 0,
                                 first |-> Undef]),
            !.lsets[s.topics[eventName]].members = Append(@, Len(s.lsns) + 1)]

On(s, eventName, listener, options) ==
  AddListener(EnsureTopic(s, eventName), eventName, listener, options)

Once(s, eventName, listener) ==
  On(s, eventName, listener, [NoOptions EXCEPT !.once = TRUE])

\* if (debounceTimer) clearTimeout(debounceTimer)
CancelListenerTimer(s, w) ==
  IF s.lsns[w].debounceTimer # 0
  THEN ClearTimeout(s, s.lsns[w].debounceTimer)
  ELSE s

\* listeners.delete(wrappedListener)
DeleteListener(s, w) ==
  [s EXCEPT !.lsets[s.lsns[w].set].members =
              [k \in DOMAIN @ |-> IF @[k] = w THEN 0 ELSE @[k]]]

\* unlisten() that leaves the topic in the registry when its Set is empty.
KeepEmptyTopic(s, w) == s

\* if (listeners.size === 0) this.eventListeners.delete(eventName)
DropEmptyTopic(s, w) ==
  IF Registered(s.lsets[s.lsns[w].set].members) = {}
  THEN [s EXCEPT !.topics[s.lsns[w].name] = 0]
  ELSE s

\* The unlisten function on() returned for the closure w.
Unlisten(s, w) ==
  DropEmptyTopic(DeleteListener(CancelListenerTimer(s, w), w), w)

\* The log entry of an invocation of the caller's listener.
Heard(s, w, data, d) ==
  [s EXCEPT !.log = Append(@, [e |-> "listen", ch |-> 0, ln |-> w, v |-> data,
                               old |-> Undef, cb |-> s.lsns[w].fn, d |-> d,
                               listed |-> s.topics[s.lsns[w].name] = s.lsns[w].set,
                               held |-> Undef]),
            !.lsns[w].calls = IF s.lsns[w].options.once /\ @ < 2 THEN @ + 1 ELSE @,
            !.lsns[w].first = IF s.lsns[w].options.once /\ s.lsns[w].calls = 0
                              THEN data ELSE @]

\* What follows listener(transformedData) inside the try of executeListener:
\* an exception skips it and is caught.
AfterListener(s, w) ==
  IF s.exc THEN [s EXCEPT !.exc = FALSE]
  ELSE IF s.lsns[w].options.once
       THEN Unlisten([s EXCEPT !.lsns[w].hasExecuted = TRUE], w)
       ELSE [s EXCEPT !.lsns[w].hasExecuted = TRUE]

ExecuteListener(s, w, transformedData, d) ==
  AfterListener(Run(Heard(s, w, transformedData, d), ListenerBeh(s.lsns[w].fn), d),
                w)

\* debounceTimer = setTimeout(executeListener, options.debounce)
StartListenerDebounce(s, w, transformedData) ==
  SetTimeout([s EXCEPT !.lsns[w].debounceTimer = FreshHandle(s)],
             [h |-> FreshHandle(s), kind |-> "listen", name |-> s.lsns[w].name,
              ch |-> 0, ln |-> w, due |-> now + s.lsns[w].options.debounce,
              new |-> transformedData, old |-> Undef])

\* The throttle branch of wrappedListener.
ThrottleListener(s, w, transformedData, d) ==
  IF now - s.lsns[w].lastCallTime >= s.lsns[w].options.throttle
  THEN ExecuteListener([s EXCEPT !.lsns[w].lastCallTime = now], w,
                       transformedData, d)
  ELSE s

\* wrappedListener after validate and transform.
Dispatch(s, w, transformedData, d) ==
  IF s.lsns[w].options.debounce # 0
  THEN StartListenerDebounce(CancelListenerTimer(s, w), w, transformedData)
  ELSE IF s.lsns[w].options.throttle # 0
  THEN ThrottleListener(s, w, transformedData, d)
  ELSE ExecuteListener(s, w, transformedData, d)

\* The call of options.transform, when there is one.
TransformData(s, w, data, d) ==
  IF s.lsns[w].options.transform # "none"
  THEN [s EXCEPT !.log = Append(@, [e |-> "transformData", ch |-> 0, ln |-> w,
                                    v |-> data, old |-> Undef,
                                    cb |-> s.lsns[w].fn, d |-> d,
                                    listed |-> s.topics[s.lsns[w].name] = s.lsns[w].set,
                                    held |-> Undef])]
  ELSE s

\* wrappedListener that validates nothing.
WrappedListenerUnfiltered(s, w, data, d) ==
  IF s.lsns[w].options.once /\ s.lsns[w].hasExecuted THEN s
  ELSE Dispatch(TransformData(s, w, data, d), w,
                Transform(s.lsns[w].options.transform, data), d)

WrappedListener(s, w, data, d) ==
  IF s.lsns[w].options.once /\ s.lsns[w].hasExecuted THEN s
  ELSE IF /\ s.lsns[w].options.validate # "none"
          /\ ~Validate(s.lsns[w].options.validate, data) THEN s
  ELSE Dispatch(TransformData(s, w, data, d), w,
                Transform(s.lsns[w].options.transform, data), d)

RECURSIVE EmitForEach(_, _, _, _, _)

\* listeners.forEach(listener => { try { listener(data) } catch ... }) on the
\* live Set object set: k is the position the iteration has reached.
EmitForEach(s, set, k, data, d) ==
  IF k > Len(s.lsets[set].members) THEN s
  ELSE IF s.lsets[set].members[k] = 0 THEN EmitForEach(s, set, k + 1, data, d)
  ELSE EmitForEach([WrappedListener(s, s.lsets[set].members[k], data, d)
                      EXCEPT !.exc = FALSE],
                   set, k + 1, data, d)

\* emit() without its "no listeners" return: forEach of undefined throws a
\* TypeError.
EmitUnguarded(s, eventName, data, d) ==
  IF s.topics[eventName] = 0 THEN [s EXCEPT !.exc = TRUE]
  ELSE EmitForEach(s, s.topics[eventName], 1, data, d)

Emit(s, eventName, data, d) ==
  IF s.topics[eventName] = 0 THEN s
  ELSE IF Registered(s.lsets[s.topics[eventName]].members) = {} THEN s
  ELSE EmitForEach(s, s.topics[eventName], 1, data, d)

\* off() that leaves the registry as it is.
OffKeepsTopic(s, eventName) == s

\* this.eventListeners.delete(eventName)
Off(s, eventName) == [s EXCEPT !.topics[eventName] = 0]

\* ---------------------------------------------------------------- caller code, run
\* The closures of the listener fn in the Set that the registry holds for
\* the topic.
UnlistenOf(s, eventName, fn) ==
  {w \in DOMAIN s.lsns :
     /\ s.lsns[w].fn = fn
     /\ s.topics[eventName] # 0
     /\ s.lsns[w].set = s.topics[eventName]
     /\ w \in Registered(s.lsets[s.lsns[w].set].members)}

\* A reentrant call deeper than the stack allows throws a RangeError.
Run(s, beh, d) ==
  CASE beh.k = "throw" -> [s EXCEPT !.exc = TRUE]
    [] beh.k = "publish" ->
         IF d >= MaxDepth THEN [s EXCEPT !.exc = TRUE]
         ELSE Publish(s, beh.name, beh.v, d + 1)
    [] beh.k = "clear" ->
         IF d >= MaxDepth THEN [s EXCEPT !.exc = TRUE]
         ELSE Clear(s, beh.name, d + 1)
    [] beh.k = "emit" ->
         IF d >= MaxDepth THEN [s EXCEPT !.exc = TRUE]
         ELSE Emit(s, beh.name, beh.v, d + 1)
    [] beh.k = "off" -> Off(s, beh.name)
    [] beh.k = "settle" ->
         IF GetValue(s, beh.name) = beh.v THEN s
         ELSE IF d >= MaxDepth THEN [s EXCEPT !.exc = TRUE]
         ELSE Publish(s, beh.name, beh.v, d + 1)
    [] beh.k = "subscribe" ->
         IF d >= MaxDepth THEN [s EXCEPT !.exc = TRUE]
         ELSE Subscribe(s, beh.name, beh.v.tag, d + 1)
    [] beh.k = "unsubscribe" ->
         \* the function subscribe() returned for beh.v.tag on the channel
         \* the name has now
         IF d >= MaxDepth THEN [s EXCEPT !.exc = TRUE]
         ELSE IF <<s.channels[beh.name], beh.v.tag>> \in s.unsubs
         THEN Unsubscribe(s, s.channels[beh.name], beh.v.tag, d + 1)
         ELSE s
    [] beh.k = "on" -> On(s, beh.name, beh.v.tag, NoOptions)
    [] beh.k = "unlisten" ->
         \* the function on() returned for the listener beh.v.tag of the
         \* Set the topic has now
         IF UnlistenOf(s, beh.name, beh.v.tag) = {} THEN s
         ELSE Unlisten(s, MinOf(UnlistenOf(s, beh.name, beh.v.tag)))
    [] OTHER -> s

\* ---------------------------------------------------------------- inputs
Delays == {2}
D == CHOOSE x \in Delays : TRUE

\* What the callers pass: per channel name the configurations, the published
\* values and the subscriber functions.
Menu(names, configs, values, callbacks) ==
  [names |-> names, configs |-> configs, values |-> values,
   callbacks |-> callbacks]

\* Callers of the publish pipeline: hooks, validate, transform, storage.
HookConfigs ==
  { NoConfig,
    [NoConfig EXCEPT !.initialValue = Num(1), !.onInit = Noop,
                     !.onChange = Noop, !.onClear = Noop],
    [NoConfig EXCEPT !.onInit = RePublish("a", Num(-1)), !.onChange = Noop,
                     !.onClear = RePublish("a", Num(1))],
    [NoConfig EXCEPT !.storage = "session", !.validate = "positive",
                     !.transform = "double", !.onInit = Noop,
                     !.onChange = Noop],
    [NoConfig EXCEPT !.storage = "local", !.initialValue = Num(1),
                     !.transform = "double", !.onInit = RePublish("a", Null)],
    [NoConfig EXCEPT !.onInit = Throw, !.onChange = Throw, !.onClear = Throw] }

HookMenu ==
  Menu({"a", "b"},
       [n \in Names |-> IF n = "a" THEN HookConfigs ELSE {NoConfig}],
       [n \in Names |-> IF n = "a" THEN PubValues ELSE {Num(1)}],
       [n \in Names |-> IF n = "a" THEN Callbacks ELSE {}])

\* Callers that use the timed options: debounce, throttle, ttl.
TimedConfigs ==
  { [NoConfig EXCEPT !.storage = "session", !.validate = "positive",
                     !.transform = "double", !.onInit = Noop,
                     !.onChange = Noop, !.debounce = D],
    [NoConfig EXCEPT !.validate = "positive", !.onChange = Noop,
                     !.throttle = D],
    [NoConfig EXCEPT !.ttl = D + 1, !.onClear = Noop] }

TimedMenu ==
  Menu({"a"},
       [n \in Names |-> TimedConfigs],
       [n \in Names |-> {Null, Num(-1), Num(1), Num(2)}],
       [n \in Names |-> {"c1"}])

\* Callers that subscribe and unsubscribe; channels with autoCleanup.
SubsConfigs ==
  { NoConfig,
    [NoConfig EXCEPT !.autoCleanup = TRUE, !.initialValue = Num(1),
                     !.onClear = Noop],
    [NoConfig EXCEPT !.autoCleanup = TRUE, !.storage = "session",
                     !.transform = "double",
                     !.onClear = RePublish("a", Num(1))],
    [NoConfig EXCEPT !.autoCleanup = TRUE, !.onClear = Throw] }

SubsMenu ==
  Menu({"a"},
       [n \in Names |-> SubsConfigs],
       [n \in Names |-> {Num(1)}],
       [n \in Names |-> Callbacks])

\* Callers with channels of several tiers side by side, clearAll and the
\* page being closed.
AllMenu ==
  Menu({"a", "b"},
       [n \in Names |->
          IF n = "a"
          THEN { [NoConfig EXCEPT !.ttl = D + 1, !.onClear = Noop],
                 [NoConfig EXCEPT !.storage = "session",
                                  !.initialValue = Num(1), !.onClear = Noop] }
          ELSE { [NoConfig EXCEPT !.onClear = RePublish("a", Num(1))],
                 [NoConfig EXCEPT !.storage = "local",
                                  !.onClear = RePublish("a", Num(1))] }],
       [n \in Names |-> {Num(1)}],
       [n \in Names |-> IF n = "a" THEN {"c1"} ELSE {}])

\* Callers of persisted channels, with Storage objects that may throw.
StoreConfigs ==
  { [NoConfig EXCEPT !.storage = "session", !.initialValue = Num(1),
                     !.transform = "double", !.onInit = Noop,
                     !.onChange = Noop],
    [NoConfig EXCEPT !.storage = "local", !.onInit = Noop, !.onClear = Throw],
    [NoConfig EXCEPT !.initialValue = Num(1)] }

StoreMenu ==
  Menu({"a"},
       [n \in Names |-> StoreConfigs],
       [n \in Names |-> {Undef, Null, Num(1)}],
       [n \in Names |-> {"c1"}])

\* Callers whose hooks and subscribers clear the channel they belong to,
\* with timers pending.
ClearingConfigs ==
  { [NoConfig EXCEPT !.debounce = D, !.onChange = Noop,
                     !.onInit = ReClear("a")],
    [NoConfig EXCEPT !.onChange = Noop, !.onInit = ReClear("a")],
    [NoConfig EXCEPT !.ttl = D + 1, !.debounce = D, !.onChange = Noop] }

ClearingMenu ==
  Menu({"a"},
       [n \in Names |-> ClearingConfigs],
       [n \in Names |-> {Num(1)}],
       [n \in Names |-> {"c3"}])

\* Callers whose onClear hooks fail, on channels with pending timers and a
\* persisted entry, with Storage objects that may throw.
FailingClearConfigs ==
  { [NoConfig EXCEPT !.storage = "local", !.ttl = D + 1, !.debounce = D,
                     !.onChange = Noop, !.onClear = Throw],
    [NoConfig EXCEPT !.storage = "session", !.initialValue = Num(1),
                     !.ttl = D, !.onClear = ReClear("a")],
    [NoConfig EXCEPT !.debounce = D, !.onChange = Noop, !.onClear = Noop] }

FailingClearMenu ==
  Menu({"a"},
       [n \in Names |-> FailingClearConfigs],
       [n \in Names |-> {Num(1)}],
       [n \in Names |-> {"c1"}])

EmitValues == {Num(-1), Num(1)}

\* Callers whose validate or transform throws for some values.
ThrowingConfigs ==
  { [NoConfig EXCEPT !.validate = "strict", !.storage = "session",
                     !.debounce = D, !.onChange = Noop, !.onInit = Noop],
    [NoConfig EXCEPT !.transform = "strict", !.throttle = D,
                     !.onChange = Noop, !.onInit = Noop] }

ThrowingMenu ==
  Menu({"a"},
       [n \in Names |-> ThrowingConfigs],
       [n \in Names |-> {Null, Num(1), Num(2)}],
       [n \in Names |-> {"c1"}])

\* Callers whose hooks and subscribers publish to the channel that is
\* notifying them.
OrderConfigs ==
  { NoConfig,
    [NoConfig EXCEPT !.storage = "session", !.transform = "double",
                     !.onInit = Noop, !.onChange = Noop],
    [NoConfig EXCEPT !.onInit = RePublish("a", Num(2)), !.onChange = Noop] }

OrderMenu ==
  Menu({"a"},
       [n \in Names |-> OrderConfigs],
       [n \in Names |-> {Num(1)}],
       [n \in Names |-> {"c1", "c6"}])

\* Callers of the topics. What they pass per topic: the listener functions
\* and the options of on(), and whether once() is used; whether they register
\* several listeners on a topic; the payloads they emit.
TopicMenu ==
  [topics |-> Topics,
   listeners |-> [t \in Topics |-> IF t = "t" THEN Listeners ELSE {"f1"}],
   options |-> [t \in Topics |-> {NoOptions}],
   once |-> [t \in Topics |-> t = "t"],
   several |-> TRUE,
   values |-> EmitValues]

\* Callers whose subscribers and listeners call back into the EventBus while
\* they are being notified.
ReentryMenu ==
  Menu({"a"},
       [n \in Names |-> {NoConfig}],
       [n \in Names |-> {Num(1)}],
       [n \in Names |-> {"c1", "c3", "c4", "c5"}])

ReentryTopicMenu ==
  [topics |-> {"t"},
   listeners |-> [t \in Topics |-> {"f1", "f3", "f4", "f5"}],
   options |-> [t \in Topics |-> {NoOptions}],
   once |-> [t \in Topics |-> FALSE],
   several |-> TRUE,
   values |-> {Num(1)}]

\* Callers that configure debounce and throttle together, on a channel and
\* on the listeners of a topic.
BothConfigs ==
  { [NoConfig EXCEPT !.debounce = D, !.throttle = D, !.onChange = Noop] }

BothMenu ==
  Menu({"a"},
       [n \in Names |-> BothConfigs],
       [n \in Names |-> {Num(1), Num(2)}],
       [n \in Names |-> {}])

BothOptions == [NoOptions EXCEPT !.debounce = D, !.throttle = D]

BothTopicMenu ==
  [topics |-> {"t"},
   listeners |-> [t \in Topics |-> {"f1"}],
   options |-> [t \in Topics |-> {BothOptions}],
   once |-> [t \in Topics |-> FALSE],
   several |-> FALSE,
   values |-> {Num(1)}]

\* Callers of one topic whose listeners use debounce, and the clock.
DebounceOption == [NoOptions EXCEPT !.debounce = D]

\* Callers whose once listeners throw or emit on their own topic.
OnceTopicMenu ==
  [topics |-> Topics,
   listeners |-> [t \in Topics |-> IF t = "t" THEN {"f1", "f2", "f6"} ELSE {"f1"}],
   options |-> [t \in Topics |-> {NoOptions}],
   once |-> [t \in Topics |-> t = "t"],
   several |-> TRUE,
   values |-> {Num(1)}]

\* Callers whose listeners accept positive numbers only.
FilterOptions ==
  { [NoOptions EXCEPT !.validate = "positive", !.debounce = D],
    [NoOptions EXCEPT !.validate = "positive", !.throttle = D],
    [NoOptions EXCEPT !.validate = "positive", !.transform = "double",
                      !.once = TRUE] }

FilterTopicMenu ==
  [topics |-> {"t"},
   listeners |-> [t \in Topics |-> {"f1"}],
   options |-> [t \in Topics |-> FilterOptions],
   once |-> [t \in Topics |-> FALSE],
   several |-> TRUE,
   values |-> EmitValues]

TimedTopicMenu ==
  [topics |-> {"t"},
   listeners |-> [t \in Topics |-> {"f1"}],
   options |-> [t \in Topics |-> {NoOptions, DebounceOption}],
   once |-> [t \in Topics |-> FALSE],
   several |-> TRUE,
   values |-> {Num(1)}]

\* ---------------------------------------------------------------- top-level calls
Cur ==
  [channels |-> channels, inst |-> inst, timers |-> timers, store |-> store,
   faulty |-> faulty,
   unsubs |-> unsubs, initialized |-> initialized,
   unloadHooks |-> unloadHooks, topics |-> topics, lsets |-> lsets,
   lsns |-> lsns, log |-> <<>>, exc |-> FALSE]

Call(op, name, id, res) == [op |-> op, name |-> name, ch |-> id, res |-> res]

\* Positions of the log where event e of channel object id occurs.
Where(seq, e, id) == {k \in DOMAIN seq : seq[k].e = e /\ seq[k].ch = id}

Count(seq, e, id) == Cardinality(Where(seq, e, id))

MaxOf(S) == CHOOSE x \in S : \A y \in S : y <= x

\* History of one channel object: onInit and onClear invocations (onClear
\* counted up to 2); the value of the last accepted publish; the new value of
\* the last onChange invocation and how many there were (counted up to 2).
\* For a channel whose configuration uses the clock, also: the value the
\* channel held before the last accepted publish, the old value of the last
\* onChange invocation; the time of the
\* last accepted publish, the onChange invocations after it, how many
\* accepted publishes there were since the publish that followed the last
\* onChange invocation (counted up to 2), and the times of the last two
\* onChange invocations.
NoHist ==
  [onInit |-> 0, onClear |-> 0,
   pubT |-> 0, pubV |-> Undef, since |-> 0, burstN |-> 0,
   chN |-> 0, chT |-> 0, chPrevT |-> 0, chV |-> Undef,
   pubOld |-> Undef, chOld |-> Undef]

UpTo2(n) == IF n > 2 THEN 2 ELSE n

\* A channel whose configuration uses the clock: debounce, throttle or ttl.
Timed(config) == config.debounce # 0 \/ config.throttle # 0 \/ config.ttl # 0

HistAfter(h, seq, id, timed) ==
  LET sets == Where(seq, "set", id)
      chs == Where(seq, "onChange", id)
      lastSet == IF sets = {} THEN 0 ELSE MaxOf(sets)
      after == {k \in chs : k > lastSet}
      n == Cardinality(chs)
  IN [onInit |-> h.onInit + Count(seq, "onInit", id),
      onClear |-> UpTo2(h.onClear + Count(seq, "onClear", id)),
      pubT |-> IF sets = {} \/ ~timed THEN h.pubT ELSE now,
      pubV |-> IF sets = {} THEN h.pubV ELSE seq[lastSet].v,
      since |-> IF ~timed THEN h.since
                ELSE IF sets = {} THEN h.since + n ELSE Cardinality(after),
      burstN |-> IF sets = {} \/ ~timed THEN h.burstN
                 ELSE UpTo2((IF h.since > 0 THEN 0 ELSE h.burstN)
                            + Cardinality(sets)),
      chN |-> UpTo2(h.chN + n),
      chT |-> IF n = 0 \/ ~timed THEN h.chT ELSE now,
      chPrevT |-> IF n = 0 \/ ~timed THEN h.chPrevT
                  ELSE IF n = 1 THEN h.chT ELSE now,
      chV |-> IF n = 0 THEN h.chV ELSE seq[MaxOf(chs)].v,
      pubOld |-> IF sets = {} \/ ~timed THEN h.pubOld ELSE seq[lastSet].old,
      chOld |-> IF n = 0 \/ ~timed THEN h.chOld ELSE seq[MaxOf(chs)].old]

\* A Channel object that left the registry is garbage, except for what an
\* unsubscribe function or a timer that still holds it can read.
Gone(name) ==
  [name |-> name, value |-> Undef, storage |-> "memory", storageKey |-> "",
   subscribers |-> <<>>, ttl |-> 0, autoCleanup |-> FALSE, timeoutId |-> 0,
   createdAt |-> 0, config |-> NoConfig, isInitialized |-> FALSE,
   onChangeDebounceTimer |-> 0, onChangeLastCall |-> 0, alive |-> FALSE]

Held(s, i) ==
  \/ \E t \in s.timers : t.ch = i
  \/ s.inst[i].autoCleanup /\ \E u \in s.unsubs : u[1] = i

Compact(s, i) ==
  IF Listed(s, i)
  THEN [s.inst[i] EXCEPT !.subscribers = SelectSeq(@, LAMBDA x : x # Hole)]
  ELSE IF Held(s, i)
  THEN [Gone(s.inst[i].name) EXCEPT !.config = s.inst[i].config,
                                    !.autoCleanup = s.inst[i].autoCleanup,
                                    !.alive = s.inst[i].alive]
  ELSE [Gone(s.inst[i].name) EXCEPT !.alive = s.inst[i].alive]

\* The state a top-level call leaves: s is what the call returned.
Commit(s, call) ==
  /\ channels' = s.channels
  /\ inst' = [i \in DOMAIN s.inst |-> Compact(s, i)]
  /\ timers' = s.timers
  /\ store' = s.store
  /\ faulty' = s.faulty
  /\ unsubs' = {u \in s.unsubs : Listed(s, u[1]) \/ s.inst[u[1]].autoCleanup}
  /\ initialized' = s.initialized
  /\ unloadHooks' = s.unloadHooks
  /\ topics' = s.topics
  /\ lsets' = [i \in DOMAIN s.lsets |->
                [s.lsets[i] EXCEPT !.members = SelectSeq(@, LAMBDA x : x # 0)]]
  /\ lsns' = s.lsns
  /\ last' = call
  /\ hist' =
       [i \in DOMAIN s.inst |->
          HistAfter(IF i \in DOMAIN inst /\ (channels[inst[i].name] = i \/ Held(Cur, i))
                    THEN hist[i] ELSE NoHist,
                    s.log, i, Timed(s.inst[i].config))]
  /\ now' = now

MayCreate(name) == channels[name] # 0 \/ Len(inst) < MaxInst

ChannelCall(M) ==
  \E name \in M.names : \E config \in M.configs[name] :
    /\ MayCreate(name)
    /\ Commit(Channel(Cur, name, config, 0),
              Call("channel", name, channels[name],
                   IF channels[name] = 0 THEN "created" ELSE "existing"))

PublishCall(M) ==
  \E name \in M.names : \E value \in M.values[name] :
    /\ MayCreate(name)
    /\ Commit(Publish(Cur, name, value, 0),
              Call("publish", name, channels[name],
                   IF channels[name] = 0 THEN "created"
                   ELSE IF PublishThrows(inst[channels[name]].config, value)
                        THEN "threw"
                   ELSE IF Accepts(inst[channels[name]].config, value)
                        THEN "accepted" ELSE "rejected"))

SubscribeCall(M) ==
  \E name \in M.names : \E callback \in M.callbacks[name] :
    /\ MayCreate(name)
    /\ Commit(Subscribe(Cur, name, callback, 0),
              Call("subscribe", name, channels[name],
                   IF channels[name] = 0 THEN "created" ELSE "existing"))

UnsubscribeCall ==
  \E u \in unsubs :
    Commit(Unsubscribe(Cur, u[1], u[2], 0),
           Call("unsubscribe", inst[u[1]].name, u[1], ""))

ClearCall ==
  \E name \in Names :
    /\ name \in DOMAIN channels
    /\ Commit(Clear(Cur, name, 0), Call("clear", name, channels[name],
                 IF channels[name] = 0 THEN "absent" ELSE "existing"))

OnCall(M) ==
  \E eventName \in M.topics : \E listener \in M.listeners[eventName] :
    \E options \in M.options[eventName] :
      /\ Len(lsns) < MaxLsn
      /\ M.several \/ topics[eventName] = 0
      /\ Commit(On(Cur, eventName, listener, options),
                Call("on", eventName, Len(lsns) + 1, ""))

OnceCall(M) ==
  \E eventName \in M.topics : \E listener \in M.listeners[eventName] :
    /\ M.once[eventName]
    /\ Len(lsns) < MaxLsn
    /\ Commit(Once(Cur, eventName, listener),
              Call("once", eventName, Len(lsns) + 1, ""))

EmitCall(M) ==
  \E eventName \in M.topics : \E data \in M.values :
    /\ Len(lsns) <= MaxLsn
    /\ Commit(Emit(Cur, eventName, data, 0),
              Call("emit", eventName, topics[eventName], ""))

OffCall(M) ==
  \E eventName \in M.topics :
    Commit(Off(Cur, eventName), Call("off", eventName, topics[eventName], ""))

\* The caller calls an unlisten function it got from on() or once().
UnlistenCall ==
  \E w \in DOMAIN lsns :
    Commit(Unlisten(Cur, w), Call("unlisten", lsns[w].name, w, ""))

ClearAllCall ==
  \E storageOnly \in Tiers \cup {""} :
    Commit(ClearAll(Cur, storageOnly, 0), Call("clearAll", storageOnly, 0, ""))

\* The page is about to be closed: the beforeunload listeners run.
Unload ==
  /\ unloadHooks > 0
  /\ Commit(BeforeUnload(Cur), Call("beforeunload", "", 0, ""))

\* The page is closed without clear and loaded again.
RestartCall ==
  /\ inst # <<>>
  /\ Commit(Restart(Cur), Call("restart", "", 0, ""))

\* The Storage object of a tier starts or stops throwing.
StorageFault ==
  \E tier \in Tiers \ {"memory"} :
    /\ faulty' = (faulty \ {tier}) \cup ({tier} \ faulty)
    /\ last' = Call("fault", tier, 0, "")
    /\ UNCHANGED <<channels, inst, timers, store, unsubs, initialized,
                   unloadHooks, topics, lsets, lsns, now, hist>>

\* A timer whose delay has passed runs its callback.
TimerFires ==
  \E t \in timers :
    /\ t.due <= now
    /\ LET s == [Cur EXCEPT !.timers = @ \ {t}]
       IN IF t.kind = "ttl"
          THEN Commit(Clear(s, t.name, 0), Call("ttl", t.name, t.ch, ""))
          ELSE IF t.kind = "debounce"
          THEN Commit(ExecuteCallback(s, t.ch, t.new, t.old, 0),
                      Call("debounce", t.name, t.ch, ""))
          ELSE Commit(ExecuteListener(s, t.ln, t.new, 0),
                      Call("listen", t.name, t.ln, ""))

\* A millisecond passes; a timer that is due runs before the next one does.
Tick ==
  /\ now < Epoch + Horizon
  /\ \A t \in timers : t.due > now
  /\ now' = now + 1
  /\ last' = Call("tick", "", 0, "")
  /\ UNCHANGED <<channels, inst, timers, store, faulty, unsubs, initialized,
                 unloadHooks, topics, lsets, lsns, hist>>

Init ==
  /\ channels = [n \in Names |-> 0]
  /\ inst = <<>>
  /\ timers = {}
  /\ store = [k \in Tiers \X Keys |-> NoEntry]
  /\ faulty = {}
  /\ unsubs = {}
  /\ initialized = FALSE
  /\ unloadHooks = 0
  /\ topics = [n \in Topics |-> 0]
  /\ lsets = <<>>
  /\ lsns = <<>>
  /\ now = Epoch
  /\ last = Call("start", "", 0, "")
  /\ hist = <<>>

\* The publish pipeline and its hooks; no timed option is in use.
Next ==
  \/ ChannelCall(HookMenu)
  \/ PublishCall(HookMenu)
  \/ SubscribeCall(HookMenu)
  \/ UnsubscribeCall
  \/ ClearCall

Spec == Init /\ [][Next]_vars

\* One channel with debounce, throttle and ttl, and the clock.
NextTimed ==
  \/ ChannelCall(TimedMenu)
  \/ PublishCall(TimedMenu)
  \/ SubscribeCall(TimedMenu)
  \/ UnsubscribeCall
  \/ ClearCall
  \/ TimerFires
  \/ Tick

SpecTimed == Init /\ [][NextTimed]_vars

\* Subscribers that come and go on one channel, with and without autoCleanup.
NextSubs ==
  \/ ChannelCall(SubsMenu)
  \/ PublishCall(SubsMenu)
  \/ SubscribeCall(SubsMenu)
  \/ UnsubscribeCall
  \/ ClearCall

SpecSubs == Init /\ [][NextSubs]_vars

\* Channels of several tiers, clearAll and the teardown hook.
NextAll ==
  \/ ChannelCall(AllMenu)
  \/ PublishCall(AllMenu)
  \/ SubscribeCall(AllMenu)
  \/ ClearCall
  \/ ClearAllCall
  \/ Unload

SpecAll == Init /\ [][NextAll]_vars

\* Persisted channels whose storage tier may fail.
NextStore ==
  \/ ChannelCall(StoreMenu)
  \/ PublishCall(StoreMenu)
  \/ SubscribeCall(StoreMenu)
  \/ ClearCall
  \/ StorageFault

SpecStore == Init /\ [][NextStore]_vars

\* Hooks and subscribers that clear their own channel, and the clock.
NextClearing ==
  \/ ChannelCall(ClearingMenu)
  \/ PublishCall(ClearingMenu)
  \/ SubscribeCall(ClearingMenu)
  \/ ClearCall
  \/ TimerFires
  \/ Tick

SpecClearing == Init /\ [][NextClearing]_vars

\* Subscribers and listeners that call back into the EventBus.
NextReentry ==
  \/ PublishCall(ReentryMenu)
  \/ SubscribeCall(ReentryMenu)
  \/ OnCall(ReentryTopicMenu)
  \/ EmitCall(ReentryTopicMenu)

SpecReentry == Init /\ [][NextReentry]_vars

\* clear() of channels whose onClear or storage removal fails.
NextFailingClear ==
  \/ ChannelCall(FailingClearMenu)
  \/ PublishCall(FailingClearMenu)
  \/ SubscribeCall(FailingClearMenu)
  \/ ClearCall
  \/ StorageFault

SpecFailingClear == Init /\ [][NextFailingClear]_vars

\* debounce and throttle configured together, and the clock.
NextBoth ==
  \/ ChannelCall(BothMenu)
  \/ PublishCall(BothMenu)
  \/ OnCall(BothTopicMenu)
  \/ EmitCall(BothTopicMenu)
  \/ TimerFires
  \/ Tick

SpecBoth == Init /\ [][NextBoth]_vars

\* The order of the steps of publish, with hooks and subscribers that publish.
NextOrder ==
  \/ ChannelCall(OrderMenu)
  \/ PublishCall(OrderMenu)
  \/ SubscribeCall(OrderMenu)
  \/ ClearCall

SpecOrder == Init /\ [][NextOrder]_vars

\* Topics: listeners that come and go, and emits.
NextTopics ==
  \/ OnCall(TopicMenu)
  \/ OnceCall(TopicMenu)
  \/ EmitCall(TopicMenu)
  \/ OffCall(TopicMenu)
  \/ UnlistenCall

SpecTopics == Init /\ [][NextTopics]_vars

\* One topic with debounced listeners, and the clock.
\* Persisted channels across page loads.
NextRestart ==
  \/ ChannelCall(StoreMenu)
  \/ PublishCall(StoreMenu)
  \/ ClearCall
  \/ RestartCall

SpecRestart == Init /\ [][NextRestart]_vars

\* validate and transform functions that throw.
NextThrowing ==
  \/ ChannelCall(ThrowingMenu)
  \/ PublishCall(ThrowingMenu)
  \/ SubscribeCall(ThrowingMenu)
  \/ TimerFires
  \/ Tick

SpecThrowing == Init /\ [][NextThrowing]_vars

\* once listeners that throw or emit.
NextOnce ==
  \/ OnCall(OnceTopicMenu)
  \/ OnceCall(OnceTopicMenu)
  \/ EmitCall(OnceTopicMenu)
  \/ OffCall(OnceTopicMenu)
  \/ UnlistenCall

SpecOnce == Init /\ [][NextOnce]_vars

\* Listeners that filter what they are given.
NextFilter ==
  \/ OnCall(FilterTopicMenu)
  \/ EmitCall(FilterTopicMenu)
  \/ TimerFires
  \/ Tick

SpecFilter == Init /\ [][NextFilter]_vars

NextTopicsTimed ==
  \/ OnCall(TimedTopicMenu)
  \/ EmitCall(TimedTopicMenu)
  \/ OffCall(TimedTopicMenu)
  \/ UnlistenCall
  \/ TimerFires
  \/ Tick

SpecTopicsTimed == Init /\ [][NextTopicsTimed]_vars

\* ---------------------------------------------------------------- properties
AllValues == PubValues \cup {Num(2)}
AllConfigs == HookConfigs \cup TimedConfigs \cup SubsConfigs

\* What the call that returned r left of the EventBus state proper.
SameBus(r) ==
  /\ r.channels = channels
  /\ r.inst = inst
  /\ r.timers = timers
  /\ r.store = store
  /\ r.unsubs = unsubs
  /\ r.topics = topics
  /\ r.lsets = lsets
  /\ r.lsns = lsns

\* C1: publish(name, v) on a name without a channel creates the channel with
\* value v, so that getValue(name) = v, and that call invokes no validate, no
\* transform, no storage write, no hook and no subscriber.
C1_PublishCreatesWithValue ==
  \A name \in Names : \A v \in AllValues :
    channels[name] = 0 =>
      LET r == Publish(Cur, name, v, 0)
      IN /\ name \in ListChannels(r)
         /\ GetValue(r, name) = v
         /\ r.log = <<>>
         /\ r.store = store
         /\ r.timers = timers
         /\ ~r.exc

C1_Witness ==
  /\ last = Call("publish", "a", 0, "created")
  /\ GetValue(Cur, "a") = Num(-1)

\* C2: every channel object that has not been cleared is the one its name
\* maps to (a name has at most one live channel), and channel(name, config2)
\* on an existing name changes nothing and invokes nothing, whatever config2.
C2_ExistingChannelUnchanged ==
  /\ \A i \in DOMAIN inst : inst[i].alive => channels[inst[i].name] = i
  /\ \A name \in Names : \A config2 \in AllConfigs :
       channels[name] # 0 =>
         LET r == Channel(Cur, name, config2, 0)
         IN SameBus(r) /\ r.log = <<>> /\ r.initialized = initialized
            /\ r.unloadHooks = unloadHooks

C2_Witness ==
  /\ last = Call("channel", "a", 1, "existing")
  /\ inst[1].config = NoConfig
  /\ inst[1].value = Num(1)
  /\ inst[1].subscribers = <<"c1">>

\* C3: a publish that validate rejects leaves the channel as it was: value,
\* initialized flag, persisted entry, pending debounce timer and throttle
\* timestamp (the whole EventBus state) are unchanged, and nothing but
\* validate is invoked: no onInit, no onChange, no subscriber.
C3_RejectedPublishChangesNothing ==
  \A name \in Names : \A v \in AllValues :
    LET id == channels[name]
    IN (id # 0 /\ inst[id].config.validate # "none"
          /\ ~Validate(inst[id].config.validate, v)) =>
         LET r == Publish(Cur, name, v, 0)
         IN /\ SameBus(r)
            /\ \A k \in DOMAIN r.log : r.log[k].e = "validate"
            /\ ~r.exc

\* A rejected publish has returned while a debounced onChange is pending and
\* the channel has a persisted entry and a subscriber.
C3_Witness ==
  /\ last = Call("publish", "a", 1, "rejected")
  /\ \E t \in timers : t.kind = "debounce" /\ t.ch = 1 /\ t.new = Num(2)
  /\ store[<<"session", "lithium:a">>] = "2"
  /\ inst[1].value = Num(2)
  /\ inst[1].subscribers = <<"c1">>

\* The events of the log that the top-level call itself produced for channel
\* object id (not those of a call a hook made from inside it).
Top(r, id) == {k \in DOMAIN r.log : r.log[k].ch = id /\ r.log[k].d = 0}

TopOf(r, id, e) == {k \in Top(r, id) : r.log[k].e = e}

\* A hook or subscriber of the call published to channel object id again.
Republished(r, id) ==
  \E k \in DOMAIN r.log : r.log[k].ch = id /\ r.log[k].d > 0 /\ r.log[k].e = "set"

\* C4: an accepted publish(name, v) on an existing channel with transform f
\* sets the value to f(v), and f(v) is what it writes to storage (tier not
\* memory), passes to onInit and to onChange as the new value, and delivers to
\* every subscriber; getValue(name) = f(v) and the persisted entry is f(v)
\* when the call returns, unless a hook published to the channel again from
\* inside the call.
C4_PublishStoresTransformed ==
  \A name \in Names : \A v \in AllValues :
    LET id == channels[name]
    IN (id # 0 /\ Accepts(inst[id].config, v)) =>
         LET r == Publish(Cur, name, v, 0)
             config == inst[id].config
             fv == Transform(config.transform, v)
         IN /\ \A k \in Top(r, id) :
                 r.log[k].e \in {"set", "write", "onInit", "onChange", "notify"}
                   => r.log[k].v = fv
            /\ Cardinality(TopOf(r, id, "set")) = 1
            /\ Cardinality(TopOf(r, id, "write"))
                 = (IF inst[id].storage = "memory" THEN 0 ELSE 1)
            /\ (config.onChange # None /\ config.debounce = 0 /\ config.throttle = 0)
                 => Cardinality(TopOf(r, id, "onChange")) = 1
            /\ \A cb \in Members(inst[id].subscribers) :
                 Cardinality({k \in TopOf(r, id, "notify") : r.log[k].cb = cb}) = 1
            /\ ~Republished(r, id) =>
                 /\ GetValue(r, name) = fv
                 /\ inst[id].storage # "memory" =>
                      r.store[<<inst[id].storage, inst[id].storageKey>>]
                        = Stringify(fv)
            /\ ~r.exc

\* publish("a", 1) has returned on a session channel that doubles: 2 is the
\* value, the persisted entry and what onInit and onChange got; two
\* subscribers are registered.
C4_Witness ==
  /\ last = Call("publish", "a", 1, "accepted")
  /\ inst[1].config.transform = "double"
  /\ inst[1].value = Num(2)
  /\ store[<<"session", "lithium:a">>] = "2"
  /\ Members(inst[1].subscribers) = {"c1", "c2"}
  /\ hist[1].onInit = 1
  /\ hist[1].chV = Num(2)

\* C5: onInit is invoked at most once per channel object: at creation when the
\* resolved value is present, or else by the first publish whose transformed
\* value is present; so it has been invoked exactly when the channel is
\* initialized, and a publish invokes it (once, and not again from a publish
\* made inside onInit) only on a channel that is not initialized yet.
C5_OnInitAtMostOnce ==
  /\ \A i \in DOMAIN inst :
       /\ hist[i].onInit <= 1
       /\ channels[inst[i].name] = i =>
            hist[i].onInit =
              (IF inst[i].config.onInit # None /\ inst[i].isInitialized
               THEN 1 ELSE 0)
  /\ \A name \in Names : \A v \in AllValues :
       LET id == channels[name]
       IN id # 0 =>
            LET r == Publish(Cur, name, v, 0)
                config == inst[id].config
            IN Count(r.log, "onInit", id) =
                 (IF /\ config.onInit # None
                     /\ ~inst[id].isInitialized
                     /\ Accepts(config, v)
                     /\ Present(Transform(config.transform, v))
                  THEN 1 ELSE 0)

\* onInit of "a" has run once, and it published -1 to "a" while it ran; later
\* publishes did not run it again.
C5_Witness ==
  /\ last = Call("publish", "a", 1, "accepted")
  /\ inst[1].config.onInit = RePublish("a", Num(-1))
  /\ hist[1].onInit = 1
  /\ hist[1].chN = 2
  /\ inst[1].value = Null

\* The pending debounced onChange invocations of channel object i.
Debounced(i) == {t \in timers : t.kind = "debounce" /\ t.ch = i}

\* C6: on a live channel with onChange and debounce d, after the last accepted
\* publish (at pubT, storing pubV) onChange is not invoked before pubT + d, has
\* been invoked exactly once when pubT + d has passed, and that invocation
\* carries pubV; until it happens exactly one invocation is pending, whatever
\* the number of publishes in the burst.
C6_DebounceOneOnChangePerBurst ==
  \A i \in DOMAIN inst :
    LET h == hist[i]
        d == inst[i].config.debounce
    IN (/\ channels[inst[i].name] = i
        /\ inst[i].config.onChange # None
        /\ d # 0
        /\ h.pubT # 0) =>
         /\ h.since <= 1
         /\ now < h.pubT + d => h.since = 0
         /\ now > h.pubT + d => h.since = 1
         /\ h.since = 1 => h.chV = h.pubV /\ h.chT >= h.pubT + d
         /\ h.since = 0 =>
              \E t \in Debounced(i) :
                /\ Debounced(i) = {t}
                /\ t.due = h.pubT + d
                /\ t.new = h.pubV

\* Two publishes one millisecond apart (debounce 2), then the one onChange of
\* the channel, with the value of the second publish, 2 ms after it.
C6_Witness ==
  /\ last = Call("debounce", "a", 1, "")
  /\ inst[1].config.debounce = D
  /\ hist[1].burstN = 2
  /\ hist[1].pubT = Epoch + 1
  /\ hist[1].pubV = Num(4)
  /\ hist[1].chN = 1
  /\ hist[1].chV = Num(4)
  /\ now = Epoch + 1 + D

\* C7: on a channel with onChange and throttle t (no debounce) an accepted
\* publish invokes onChange, synchronously and with the transformed value,
\* exactly when no onChange was invoked yet or the last invocation is at least
\* t old; otherwise the invocation is dropped: nothing is queued and the
\* throttle timestamp stays.  Two invocations are never less than t apart.
C7_ThrottleRunsOrDrops ==
  /\ \A name \in Names : \A v \in AllValues :
       LET id == channels[name]
       IN (/\ id # 0
           /\ inst[id].config.onChange # None
           /\ inst[id].config.debounce = 0
           /\ inst[id].config.throttle # 0
           /\ Accepts(inst[id].config, v)) =>
            LET r == Publish(Cur, name, v, 0)
                open == \/ hist[id].chN = 0
                        \/ now - hist[id].chT >= inst[id].config.throttle
            IN /\ Count(r.log, "onChange", id) = (IF open THEN 1 ELSE 0)
               /\ \A k \in TopOf(r, id, "onChange") :
                    r.log[k].v = Transform(inst[id].config.transform, v)
               /\ r.timers = timers
               /\ ~open => r.inst[id].onChangeLastCall = inst[id].onChangeLastCall
  /\ \A i \in DOMAIN inst :
       (/\ channels[inst[i].name] = i
        /\ inst[i].config.debounce = 0
        /\ inst[i].config.throttle # 0
        /\ hist[i].chN = 2) =>
         hist[i].chT - hist[i].chPrevT >= inst[i].config.throttle

\* publish 1 at Epoch ran onChange; publish 2 one millisecond later (throttle
\* 2) was stored but its onChange was dropped.
C7_Witness ==
  /\ last = Call("publish", "a", 1, "accepted")
  /\ inst[1].config.throttle = D
  /\ hist[1].pubT = Epoch + 1
  /\ hist[1].pubV = Num(2)
  /\ hist[1].chN = 1
  /\ hist[1].chT = Epoch
  /\ hist[1].chV = Num(1)
  /\ inst[1].onChangeLastCall = Epoch
  /\ timers = {}

\* C8: clear(name) on an existing channel invokes onClear (when configured)
\* once and while name is still in listChannels(); when clear returns, name is
\* not in listChannels() and getValue(name) is absent.
C8_ClearRunsOnClearThenRemoves ==
  \A name \in Names :
    LET id == channels[name]
    IN id # 0 =>
         LET r == Clear(Cur, name, 0)
         IN /\ Cardinality(TopOf(r, id, "onClear"))
                 = (IF inst[id].config.onClear # None THEN 1 ELSE 0)
            /\ \A k \in TopOf(r, id, "onClear") : r.log[k].listed
            /\ name \notin ListChannels(r)
            /\ GetValue(r, name) = Undef
            /\ ~r.exc

\* clear("a") has returned: onClear of the channel object ran once (and
\* published to "a" while it held a value), and "a" is gone.
C8_Witness ==
  /\ last = Call("clear", "a", 1, "existing")
  /\ hist[1].onClear = 1
  /\ hist[1].pubV = Num(1)
  /\ ~inst[1].alive
  /\ ListChannels(Cur) = {"b"}

\* C9: clear(name) on a name without a channel is a no-op: the EventBus state
\* (registry, the other channels, storage, timers) is what it was and nothing
\* is invoked; so a second clear(name) right after a first changes nothing.
C9_ClearAbsentIsNoOp ==
  \A name \in Names :
    /\ channels[name] = 0 => Clear(Cur, name, 0) = Cur
    /\ LET once == [Clear(Cur, name, 0) EXCEPT !.log = <<>>]
       IN Clear(once, name, 0) = once

\* clear("b") has returned where "b" has no channel, while "a" has a pending
\* debounced onChange, a persisted entry and a subscriber.
C9_Witness ==
  /\ last = Call("clear", "b", 0, "absent")
  /\ channels = [n \in Names |-> IF n = "a" THEN 1 ELSE 0]
  /\ Debounced(1) # {}
  /\ store[<<"session", "lithium:a">>] = "2"
  /\ inst[1].subscribers = <<"c1">>

\* The pending TTL timers that will clear name.
Expiries(name) == {t \in timers : t.kind = "ttl" /\ t.name = name}

\* C10: a live channel created with ttl > 0 has exactly one pending expiry,
\* due at createdAt + ttl whatever was published or subscribed since, and the
\* channel is never listed after that time; an expiry belongs to the channel
\* its name maps to, and when it runs the name leaves listChannels() and no
\* expiry for it is left.
C10_TtlExpiresOnceAtCreationPlusTtl ==
  /\ \A i \in DOMAIN inst :
       (channels[inst[i].name] = i /\ inst[i].ttl # 0) =>
         /\ \E t \in Expiries(inst[i].name) :
              /\ Expiries(inst[i].name) = {t}
              /\ t.h = inst[i].timeoutId
              /\ t.due = inst[i].createdAt + inst[i].ttl
         /\ now <= inst[i].createdAt + inst[i].ttl
  /\ \A t \in timers :
       t.kind = "ttl" =>
         /\ channels[t.name] = t.ch
         /\ LET r == Clear([Cur EXCEPT !.timers = @ \ {t}], t.name, 0)
            IN /\ t.name \notin ListChannels(r)
               /\ \A u \in r.timers : ~(u.kind = "ttl" /\ u.name = t.name)

\* The channel created at Epoch with ttl 3 was published to one millisecond
\* later and was cleared by its expiry at Epoch + 3.
C10_Witness ==
  /\ last = Call("ttl", "a", 1, "")
  /\ now = Epoch + D + 1
  /\ hist[1].pubT = Epoch + 1
  /\ hist[1].onClear = 1
  /\ ListChannels(Cur) = {}
  /\ timers = {}

\* C11: the unsubscribe function of a live channel removes its callback; when
\* the channel has autoCleanup and no subscriber is left, the channel is
\* cleared before the function returns (onClear runs once, while the name is
\* still listed, and the name leaves listChannels()); when a subscriber is
\* left or autoCleanup is false, only the callback goes: the registry, the
\* value, the other subscribers, storage and timers stay and nothing is
\* invoked.
C11_AutoCleanupOnLastUnsubscribe ==
  \A u \in unsubs :
    LET id == u[1]
        cb == u[2]
        name == inst[id].name
        rest == Members(inst[id].subscribers) \ {cb}
        r == Unsubscribe(Cur, id, cb, 0)
    IN Listed(Cur, id) =>
         IF inst[id].autoCleanup /\ rest = {}
         THEN /\ name \notin ListChannels(r)
              /\ GetValue(r, name) = Undef
              /\ Cardinality(TopOf(r, id, "onClear"))
                   = (IF inst[id].config.onClear # None THEN 1 ELSE 0)
              /\ \A k \in TopOf(r, id, "onClear") : r.log[k].listed
              /\ ~r.exc
         ELSE /\ r.channels = channels
              /\ Members(r.inst[id].subscribers) = rest
              /\ r.inst[id].value = inst[id].value
              /\ r.inst[id].alive
              /\ \A j \in DOMAIN inst : j # id => r.inst[j] = inst[j]
              /\ r.store = store
              /\ r.timers = timers
              /\ r.log = <<>>
              /\ ~r.exc

\* The last subscriber of an autoCleanup channel has unsubscribed: onClear ran
\* and the channel is gone.
C11_Witness ==
  /\ last = Call("unsubscribe", "a", 1, "")
  /\ inst[1].autoCleanup
  /\ inst[1].config.onClear = Noop
  /\ hist[1].onClear = 1
  /\ ~inst[1].alive
  /\ ListChannels(Cur) = {}

\* ---------------------------------------------------------------- C12
\* The invocations of the caller's listener of closure w in the log of r.
Heards(r, w) == {k \in DOMAIN r.log : r.log[k].e = "listen" /\ r.log[k].ln = w}

IsRegistered(r, w) ==
  /\ r.topics[r.lsns[w].name] = r.lsns[w].set
  /\ w \in Registered(r.lsets[r.lsns[w].set].members)

\* Two emits on the topic of closure w, one after the other.
EmitTwice(w, x, y) ==
  Emit(Emit(Cur, lsns[w].name, x, 0), lsns[w].name, y, 0)

\* C12: a listener registered with once(topic, fn) is invoked exactly once
\* over two emit(topic, x) calls in sequence, with the payload of the first
\* emit, and after that invocation it is no longer registered; the topic is
\* removed if it was the only listener.  Stated of every once listener that
\* has not been invoked yet, in every state, and of the count of its
\* invocations so far.
C12_OnceInvokedExactlyOnce ==
  \A w \in DOMAIN lsns :
    lsns[w].options.once =>
      /\ lsns[w].calls <= 1
      /\ lsns[w].calls = 1 => ~IsRegistered(Cur, w)
      /\ (IsRegistered(Cur, w) /\ lsns[w].calls = 0) =>
            \A x \in EmitValues : \A y \in EmitValues :
              LET r == EmitTwice(w, x, y)
              IN /\ Cardinality(Heards(r, w)) = 1
                 /\ \A k \in Heards(r, w) : r.log[k].v = x
                 /\ r.lsns[w].first = x
                 /\ ~IsRegistered(r, w)
                 /\ Registered(lsets[lsns[w].set].members) = {w}
                      => r.topics[lsns[w].name] = 0
                 /\ ~r.exc

\* ---------------------------------------------------------------- C13
\* The caller code the log entry k of r invoked threw an exception.
Threw(r, k) ==
  \/ r.log[k].e = "notify" /\ CallbackBeh(r.log[k].cb) = Throw
  \/ r.log[k].e \in {"onInit", "onChange"}
       /\ r.inst[r.log[k].ch].config[r.log[k].e] = Throw

\* C13: during publish on an existing channel, an exception thrown by onInit,
\* by onChange or by a subscriber is caught at that call: after the entry of
\* the log where it was thrown, onChange (when configured and neither
\* debounced nor throttled) is still invoked if it had not been, every
\* subscriber that had not been notified is notified with the transformed
\* value, the value stays stored and publish returns normally.
C13_HookExceptionsCaught ==
  \A name \in Names : \A v \in AllValues :
    LET id == channels[name]
    IN (id # 0 /\ Accepts(inst[id].config, v)) =>
         LET r == Publish(Cur, name, v, 0)
             config == inst[id].config
             fv == Transform(config.transform, v)
         IN \A k \in Top(r, id) :
              Threw(r, k) =>
                /\ ~r.exc
                /\ r.log[k].e = "onInit"
                     /\ config.onChange # None
                     /\ config.debounce = 0 /\ config.throttle = 0
                     => \E j \in TopOf(r, id, "onChange") :
                          j > k /\ r.log[j].v = fv
                /\ \A cb \in Members(inst[id].subscribers) :
                     \E j \in TopOf(r, id, "notify") :
                       /\ r.log[j].cb = cb /\ r.log[j].v = fv
                       /\ r.log[k].e = "notify" /\ r.log[k].cb # cb
                            => \A i \in TopOf(r, id, "notify") :
                                 r.log[i].cb = cb => i = j
                       /\ r.log[k].e # "notify" => j > k
                /\ ~Republished(r, id) => GetValue(r, name) = fv
                /\ r.channels[name] = id

\* publish("a", 1) has returned on a channel whose onInit and onChange throw
\* and whose first subscriber throws: both hooks ran, the second subscriber
\* was notified, and 1 is stored.
C13_Witness ==
  /\ last = Call("publish", "a", 1, "accepted")
  /\ inst[1].config.onInit = Throw /\ inst[1].config.onChange = Throw
  /\ inst[1].subscribers = <<"c2", "c1">>
  /\ hist[1].onInit = 1 /\ hist[1].chN = 1 /\ hist[1].chV = Num(1)
  /\ inst[1].value = Num(1)

\* ---------------------------------------------------------------- C14
\* C14: when the storage write of an accepted publish on a session or local
\* channel fails, the value in memory is the transformed value (getValue
\* returns it), onInit (on the first present value), onChange and every
\* subscriber still run for that publish with the transformed value, the
\* stored entries are what they were, and publish returns normally.
C14_WriteFailureKeepsValue ==
  \A name \in Names : \A v \in AllValues :
    LET id == channels[name]
    IN (id # 0 /\ Accepts(inst[id].config, v)
          /\ inst[id].storage # "memory" /\ inst[id].storage \in faulty) =>
         LET r == Publish(Cur, name, v, 0)
             config == inst[id].config
             fv == Transform(config.transform, v)
         IN /\ GetValue(r, name) = fv
            /\ r.store = store
            /\ Cardinality(TopOf(r, id, "onInit"))
                 = (IF ~inst[id].isInitialized /\ Present(fv)
                       /\ config.onInit # None THEN 1 ELSE 0)
            /\ Cardinality(TopOf(r, id, "onChange"))
                 = (IF config.onChange # None THEN 1 ELSE 0)
            /\ \A cb \in Members(inst[id].subscribers) :
                 Cardinality({k \in TopOf(r, id, "notify") :
                                r.log[k].cb = cb /\ r.log[k].v = fv}) = 1
            /\ \A k \in TopOf(r, id, "onInit") \cup TopOf(r, id, "onChange") :
                 r.log[k].v = fv
            /\ ~r.exc

\* publish("a", 1) has returned on a session channel that doubles while
\* sessionStorage throws: 2 is the value, onChange got it, a subscriber is
\* registered and the entry of the channel is not "2".
C14_Witness ==
  /\ last = Call("publish", "a", 1, "accepted")
  /\ "session" \in faulty
  /\ inst[1].storage = "session" /\ inst[1].value = Num(2)
  /\ hist[1].chN >= 1 /\ hist[1].chV = Num(2)
  /\ inst[1].subscribers = <<"c1">>
  /\ store[<<"session", "lithium:a">>] # "2"

\* ---------------------------------------------------------------- C15
\* The entry of the storage of r at the storageKey of the channel object id.
EntryOf(r, id) == r.store[<<inst[id].storage, inst[id].storageKey>>]

\* C15 as stated: in every reachable state (storage never failing), each
\* live channel with a tier other than memory has a persisted entry at its
\* storageKey whose value equals the channel's current value.
C15_EveryLiveChannelPersisted ==
  \A name \in Names :
    LET id == channels[name]
    IN (id # 0 /\ inst[id].storage # "memory") =>
         /\ EntryOf(Cur, id) # NoEntry
         /\ GetFromStorage(Cur, inst[id].storageKey, inst[id].storage)
              = inst[id].value

\* C15 amended: in every reachable state (storage never failing and empty
\* at the start, no storageKey shared), a live channel with a tier other than
\* memory has no persisted entry until a publish on it is accepted (creating
\* the channel writes nothing, whatever its onInit hook does aside) and from
\* then on exactly one entry at its storageKey, the serialized form of its
\* current value; and once clear(name) has returned there is no entry at the
\* storageKey.
C15_PersistedOnPublish ==
  /\ \A name \in Names :
       LET id == channels[name]
       IN (id # 0 /\ inst[id].storage # "memory") =>
            /\ EntryOf(Cur, id) \in {NoEntry, Stringify(inst[id].value)}
            /\ EntryOf(Cur, id) = (IF hist[id].pubV = Undef THEN NoEntry
                                   ELSE Stringify(inst[id].value))
            /\ \A v \in AllValues :
                 Accepts(inst[id].config, v) =>
                   LET r == Publish(Cur, name, v, 0)
                   IN r.channels[name] = id
                        => EntryOf(r, id) = Stringify(r.inst[id].value)
            /\ LET r == Clear(Cur, name, 0)
               IN EntryOf(r, id) = NoEntry /\ r.channels[name] = 0
  /\ \A name \in Names : \A config \in AllConfigs :
       (channels[name] = 0 /\ config.onInit.k \notin {"publish", "clear"})
         => Channel(Cur, name, config, 0).store = store

\* publish("a", undefined) has returned on a local channel that doubles and
\* was created with the value 1: NaN is the value and the entry at its
\* storageKey is "null".
C15_Witness ==
  /\ last = Call("publish", "a", 1, "accepted")
  /\ inst[1].storage = "local" /\ inst[1].config.initialValue = Num(1)
  /\ inst[1].value = NaN
  /\ store[<<"local", "lithium:a">>] = "null"

\* ---------------------------------------------------------------- C16
\* The value of the channel that channel(name, config) has just created.
CreatedValue(name, config) ==
  LET r == Channel(Cur, name, config, 0)
  IN r.inst[r.channels[name]].value

\* The hooks of config do not write to the channel at its creation.
QuietInit(config) == config.onInit.k \notin {"publish", "clear"}

\* C16 as stated: a new channel starts with what the Storage Adapter returns
\* at storageKey if the tier is not memory (absent when there is no entry or
\* the read fails), and with config.initialValue only when the tier is
\* memory.
C16_StoredValueOrAbsent ==
  \A name \in Names : \A config \in AllConfigs \cup StoreConfigs :
    (channels[name] = 0 /\ QuietInit(config)) =>
      CreatedValue(name, config)
        = (IF config.storage = "memory" THEN config.initialValue
           ELSE GetFromStorage(Cur, StorageKeyOf(name, config), config.storage))

\* C16 amended: a new channel starts with what the Storage Adapter returns at
\* storageKey if the tier is not memory and there is an entry that can be
\* read and parsed, and with config.initialValue when the tier is memory,
\* when there is no entry and when the read fails.
C16_StoredValueElseInitial ==
  \A name \in Names : \A config \in AllConfigs \cup StoreConfigs :
    (channels[name] = 0 /\ QuietInit(config)) =>
      LET raw == store[<<config.storage, StorageKeyOf(name, config)>>]
      IN CreatedValue(name, config)
           = (IF \/ config.storage = "memory"
                 \/ config.storage \in faulty
                 \/ raw = NoEntry
                 \/ Parse(raw) = Undef
              THEN config.initialValue
              ELSE Parse(raw))

\* channel("a", {storage: session, initialValue: 1}) has created a second
\* channel object while sessionStorage held "2" from the first one, whose
\* removal had failed: its value is 2.
C16_Witness ==
  /\ last = Call("channel", "a", 0, "created")
  /\ Len(inst) = 2 /\ channels["a"] = 2
  /\ inst[2].storage = "session" /\ inst[2].config.initialValue = Num(1)
  /\ inst[2].value = Num(2)
  /\ store[<<"session", "lithium:a">>] = "2"

\* ---------------------------------------------------------------- C17
\* No hook or subscriber that ran in the call that returned r called the
\* EventBus on the channel object id.
Untouched(r, id) == \A k \in DOMAIN r.log : r.log[k].ch = id => r.log[k].d = 0

TimersOf(r, id) == {t \in r.timers : t.ch = id}

\* The call that returned r cleared the channel object id: onClear ran once
\* if configured, its timers are cancelled and it left the registry.
Cleared(r, id) ==
  /\ r.channels[inst[id].name] # id
  /\ ~r.inst[id].alive
  /\ Count(r.log, "onClear", id)
       = (IF inst[id].config.onClear # None THEN 1 ELSE 0)
  /\ TimersOf(r, id) = {}

\* The call that returned r left the channel object id as it was: in the
\* registry, with its value, subscribers, timers and persisted entry.
Kept(r, id) ==
  /\ r.channels[inst[id].name] = id
  /\ r.inst[id] = inst[id]
  /\ TimersOf(r, id) = TimersOf(Cur, id)
  /\ EntryOf(r, id) = EntryOf(Cur, id)

\* C17: the process-teardown hook is registered at most once, by the first
\* channel-creating call, and when it runs it clears every channel whose tier
\* is memory (onClear is invoked, its timers are cancelled) and leaves every
\* session and local channel in the registry with its persisted entry
\* untouched, unless an onClear hook of a cleared channel published to it.
C17_TeardownClearsMemoryChannels ==
  /\ unloadHooks = (IF inst = <<>> THEN 0 ELSE 1)
  /\ initialized = (inst # <<>>)
  /\ LET r == BeforeUnload(Cur)
     IN /\ \A id \in DOMAIN inst :
             Listed(Cur, id) =>
               IF inst[id].storage = "memory"
               THEN Cleared(r, id)
               ELSE Untouched(r, id) => Kept(r, id)
        /\ \A i \in DOMAIN r.inst :
             Listed(r, i) => r.inst[i].storage # "memory"
        /\ ~r.exc

\* The page was about to close: the memory channel "b" has been cleared and
\* its onClear has run, the session channel "a" is in the registry with its
\* value 1 and its entry "1".
C17_Witness ==
  /\ last = Call("beforeunload", "", 0, "")
  /\ channels["a"] # 0 /\ inst[channels["a"]].storage = "session"
  /\ inst[channels["a"]].value = Num(1)
  /\ store[<<"session", "lithium:a">>] = "1"
  /\ channels["b"] = 0
  /\ \E i \in DOMAIN inst :
       inst[i].name = "b" /\ ~inst[i].alive /\ hist[i].onClear = 1

\* ---------------------------------------------------------------- C18
\* C18: clearAll() with no filter leaves listChannels() empty; clearAll(tier)
\* clears exactly the channels whose storage tier is tier and leaves every
\* other channel in the registry with its value, subscribers, timers and
\* persisted entry unchanged, unless an onClear hook of a cleared channel
\* published to it.
C18_ClearAllByTier ==
  /\ ListChannels(ClearAll(Cur, "", 0)) = {}
  /\ ~ClearAll(Cur, "", 0).exc
  /\ \A tier \in Tiers :
       LET r == ClearAll(Cur, tier, 0)
       IN /\ \A id \in DOMAIN inst :
               Listed(Cur, id) =>
                 IF inst[id].storage = tier
                 THEN Cleared(r, id)
                 ELSE /\ r.channels[inst[id].name] = id
                      /\ Count(r.log, "onClear", id) = 0
                      /\ Untouched(r, id) => Kept(r, id)
          /\ \A i \in DOMAIN r.inst : Listed(r, i) => r.inst[i].storage # tier
          /\ ~r.exc

\* clearAll("session") has returned: the session channel "a" is gone and its
\* onClear has run, the local channel "b" is in the registry with its
\* entry.
C18_Witness ==
  /\ last = Call("clearAll", "session", 0, "")
  /\ channels["a"] = 0
  /\ \E i \in DOMAIN inst :
       inst[i].name = "a" /\ ~inst[i].alive /\ hist[i].onClear = 1
  /\ channels["b"] # 0 /\ inst[channels["b"]].storage = "local"
  /\ store[<<"local", "lithium:b">>] = "1"
  /\ store[<<"session", "lithium:a">>] = NoEntry

\* ---------------------------------------------------------------- C19
\* The invocations of the subscriber cb in the log of r.
Notified(r, cb) == {k \in DOMAIN r.log : r.log[k].e = "notify" /\ r.log[k].cb = cb}

\* subscribe(name, cb) on a name without a channel creates a memory channel
\* with absent value, not initialized, and registers cb; on an existing
\* channel it only adds cb.
SubscribeAdds(name, cb) ==
  LET r == Subscribe(Cur, name, cb, 0)
      id == r.channels[name]
  IN /\ r.log = <<>> /\ ~r.exc
     /\ <<id, cb>> \in r.unsubs
     /\ IF channels[name] = 0
        THEN /\ id = Len(inst) + 1
             /\ r.inst[id].storage = "memory" /\ r.inst[id].value = Undef
             /\ ~r.inst[id].isInitialized
             /\ r.inst[id].config = NoConfig
             /\ Members(r.inst[id].subscribers) = {cb}
             /\ r.store = store /\ r.timers = timers
        ELSE r = [Cur EXCEPT !.inst[id].subscribers = SetAdd(@, cb),
                             !.unsubs = @ \cup {<<id, cb>>}]

\* C19 as stated: subscribe(name, cb) registers cb, and every later accepted
\* publish on that channel invokes cb with the transformed value until the
\* unsubscribe function that this subscribe returned runs.  Here an earlier
\* subscribe(name, cb) had returned a function too, and that one runs after
\* the subscribe: the function this subscribe returned has not run.
C19_NotifiedUntilOwnUnsubscribe ==
  \A name \in Names : \A cb \in Callbacks :
    /\ SubscribeAdds(name, cb)
    /\ \A v \in AllValues :
         LET id == channels[name]
         IN (id # 0 /\ <<id, cb>> \in unsubs /\ Accepts(inst[id].config, v)) =>
              LET r == Publish(Unsubscribe(Subscribe(Cur, name, cb, 0),
                                           id, cb, 0),
                               name, v, 0)
              IN \E k \in Notified(r, cb) :
                   r.log[k].v = Transform(inst[id].config.transform, v)

\* C19 amended: subscribe(name, cb) on a name with no channel creates a
\* memory channel with absent value, not initialized, and registers cb; on an
\* existing channel it only adds cb to the subscriber set, which holds cb
\* once however often it is subscribed.  While cb is in the set, every
\* accepted publish on the channel invokes cb once with the transformed
\* value, and publish, subscribe and the unsubscribe functions of the other
\* callbacks of the channel leave it there; an unsubscribe function returned
\* for cb on that channel, run while the channel is in the registry, removes
\* it (so does clear), after which later publishes do not invoke cb.
C19_NotifiedWhileSubscribed ==
  \A name \in Names : \A cb \in Callbacks :
    /\ SubscribeAdds(name, cb)
    /\ LET id == channels[name]
       IN (id # 0 /\ cb \in Members(inst[id].subscribers)) =>
            /\ \A v \in AllValues :
                 LET r == Publish(Cur, name, v, 0)
                 IN /\ Accepts(inst[id].config, v) =>
                         /\ Cardinality(Notified(r, cb)) = 1
                         /\ \A k \in Notified(r, cb) :
                              /\ r.log[k].v = Transform(inst[id].config.transform, v)
                              /\ r.log[k].ch = id /\ r.log[k].d = 0
                    /\ r.channels[name] = id
                    /\ cb \in Members(r.inst[id].subscribers)
            /\ \A cb2 \in Callbacks :
                 /\ cb \in Members(Subscribe(Cur, name, cb2, 0).inst[id].subscribers)
                 /\ (cb2 # cb /\ <<id, cb2>> \in unsubs) =>
                      cb \in Members(Unsubscribe(Cur, id, cb2, 0).inst[id].subscribers)
            /\ cb \notin Members(Clear(Cur, name, 0).inst[id].subscribers)
    /\ \A u \in unsubs : \A v \in AllValues :
         (u[2] = cb /\ channels[name] = u[1]) =>
           LET r == Unsubscribe(Cur, u[1], cb, 0)
           IN /\ cb \notin Members(r.inst[u[1]].subscribers)
              /\ Notified(Publish(r, name, v, 0), cb) = {}
    /\ \A v \in AllValues :
         (channels[name] # 0 /\ cb \notin Members(inst[channels[name]].subscribers))
           => Notified(Publish(Cur, name, v, 0), cb) = {}

\* publish("a", 1) has returned on a channel that doubles and has the
\* subscribers c1 and c2, after c1 had been unsubscribed and subscribed
\* again.
C19_Witness ==
  /\ last = Call("publish", "a", 1, "accepted")
  /\ inst[1].config.transform = "double"
  /\ inst[1].subscribers = <<"c2", "c1">>
  /\ inst[1].value = Num(2)
  /\ {<<1, "c1">>, <<1, "c2">>} \subseteq unsubs

\* ---------------------------------------------------------------- C20
\* The topic has no registered listener.
NoListener(s, eventName) ==
  \/ s.topics[eventName] = 0
  \/ Registered(s.lsets[s.topics[eventName]].members) = {}

\* The EventBus with a persisted channel that has a value, an entry and a
\* pending TTL timer.
WithChannel ==
  Publish(Channel(Cur, "a",
                  [NoConfig EXCEPT !.storage = "session", !.ttl = D + 1], 0),
          "a", Num(1), 0)

\* C20: emit(topic, data) on a topic with no registered listener changes
\* nothing (the topic registry, the listeners of the other topics, the channel
\* registry, storage and timers are what they were), invokes no callback and
\* does not throw.
C20_EmitWithoutListenerIsNoOp ==
  LET bus == WithChannel
  IN /\ bus.timers # {} /\ ListChannels(bus) = {"a"}
     /\ \A eventName \in Topics : \A data \in AllValues :
          NoListener(Cur, eventName) =>
            /\ Emit(Cur, eventName, data, 0) = Cur
            /\ Emit(bus, eventName, data, 0) = bus

\* emit("u", x) has returned while no listener was registered for "u": the
\* once listener of "t" is registered and has not been invoked.
C20_Witness ==
  /\ last = Call("emit", "u", 0, "")
  /\ topics["u"] = 0
  /\ Len(lsns) >= 1 /\ lsns[1].name = "t" /\ lsns[1].options.once
  /\ IsRegistered(Cur, 1) /\ lsns[1].calls = 0

\* ---------------------------------------------------------------- C21
\* The listener closure w is in a Set that the registry no longer holds.
Detached(w) ==
  /\ topics[lsns[w].name] # lsns[w].set
  /\ w \in Registered(lsets[lsns[w].set].members)

\* C21: after off(name) the topic is absent from the registry and an emit on
\* name invokes none of the listeners that were registered on it before the
\* off, also after on() or once() registered new listeners on name; the
\* listeners of the other topics are invoked as before.
C21_OffRemovesTopic ==
  /\ \A name \in Topics :
       LET r == Off(Cur, name)
       IN /\ r.topics[name] = 0
          /\ r.lsets = lsets /\ r.lsns = lsns /\ r.timers = timers
          /\ \A x \in EmitValues :
               /\ Emit(r, name, x, 0) = r
               /\ \A o \in Topics \ {name} :
                    /\ r.topics[o] = topics[o]
                    /\ Emit(r, o, x, 0).log = Emit(Cur, o, x, 0).log
  /\ \A w \in DOMAIN lsns : \A x \in EmitValues :
       Detached(w) => Heards(Emit(Cur, lsns[w].name, x, 0), w) = {}

\* off("t") removed a listener, on() registered a new one on "t", and the
\* emit that followed invoked the new one.
C21_Witness ==
  \E w, v \in DOMAIN lsns :
    /\ Detached(w)
    /\ lsns[v].name = lsns[w].name
    /\ topics[lsns[v].name] = lsns[v].set
    /\ last.op = "emit" /\ last.name = lsns[w].name
    /\ lsns[v].hasExecuted

\* ---------------------------------------------------------------- C22
\* The registry holds the Set of the closure w and w is in it.
Listening(r, w) ==
  /\ r.topics[r.lsns[w].name] = r.lsns[w].set
  /\ w \in Registered(r.lsets[r.lsns[w].set].members)

ListenerTimers(r, w) == {t \in r.timers : t.kind = "listen" /\ t.ln = w}

\* C22: after the unlisten function of a listener has run, no emit invokes
\* that listener and no debounced invocation of it is pending; the other
\* listeners of the topic stay registered, and the topic leaves the registry
\* only if its listener set became empty.
C22_UnlistenRemovesOnlyItsListener ==
  \A w \in DOMAIN lsns :
    LET r == Unlisten(Cur, w)
        name == lsns[w].name
    IN /\ ~Listening(r, w)
       /\ ListenerTimers(r, w) = {}
       /\ \A x \in EmitValues : Heards(Emit(r, name, x, 0), w) = {}
       /\ \A v \in DOMAIN lsns \ {w} : Listening(Cur, v) => Listening(r, v)
       /\ topics[name] # 0 /\ r.topics[name] = 0
            => Registered(r.lsets[topics[name]].members) = {}

\* ---------------------------------------------------------------- C23
\* C23: once clear(name) has returned for a channel object, no timer of that
\* object is pending (neither its TTL timer nor a debounced onChange) and its
\* onChange is not invoked any more, also when the clear was called by onInit
\* or by a subscriber in the middle of a publish.
C23_NothingRunsAfterClear ==
  /\ \A i \in DOMAIN inst : ~inst[i].alive => TimersOf(Cur, i) = {}
  /\ \A name \in Names : \A v \in {Num(1)} :
       LET r == Publish(Cur, name, v, 0)
       IN \A k \in DOMAIN r.log : r.log[k].e = "onChange" => r.log[k].listed
  /\ last.op = "debounce" => inst[last.ch].alive

\* ---------------------------------------------------------------- C24
\* The subscribers that the call that returned r invoked with the value v.
NotifiedWith(r, id, v) ==
  {r.log[k].cb : k \in {j \in DOMAIN r.log :
                          /\ r.log[j].e = "notify" /\ r.log[j].ch = id
                          /\ r.log[j].v = v}}

\* The closures whose listener the call that returned r invoked.
HeardBy(r) == {r.log[k].ln : k \in {j \in DOMAIN r.log : r.log[j].e = "listen"}}

\* C24: a publish on an existing channel invokes every subscriber that is in
\* the subscriber set when the notification starts, with the transformed
\* value, whatever the subscribers do while they are notified (clear the
\* channel, run another subscriber's unsubscribe function); an emit invokes
\* every listener that is registered when it starts, whatever the listeners
\* do (off on the topic, another listener's unlisten function).
C24_NotificationRunsThemAll ==
  /\ \A name \in Names : \A v \in {Num(1)} :
       channels[name] # 0 =>
         LET id == channels[name]
             r == Publish(Cur, name, v, 0)
         IN Members(inst[id].subscribers)
              \subseteq NotifiedWith(r, id, TransformedValue(inst[id].config, v))
  /\ \A eventName \in Topics : \A x \in {Num(1)} :
       topics[eventName] # 0 =>
         Registered(lsets[topics[eventName]].members)
           \subseteq HeardBy(Emit(Cur, eventName, x, 0))

\* ---------------------------------------------------------------- C25
\* C25: an emit invokes only listeners that were registered when it started:
\* a listener that another listener registers on the topic while the emit is
\* running is not invoked by that emit.
C25_EmitIteratesSnapshot ==
  \A eventName \in Topics : \A x \in {Num(1)} :
    topics[eventName] # 0 =>
      HeardBy(Emit(Cur, eventName, x, 0))
        \subseteq Registered(lsets[topics[eventName]].members)

\* ---------------------------------------------------------------- C26
\* C26: a publish notifies only callbacks that were subscribed when the
\* notification started: a callback that a subscriber subscribes to the
\* channel while the publish is notifying is not invoked by that publish.
C26_PublishNotifiesSnapshot ==
  \A name \in Names : \A v \in {Num(1)} :
    channels[name] # 0 =>
      LET id == channels[name]
          r == Publish(Cur, name, v, 0)
      IN NotifiedWith(r, id, TransformedValue(inst[id].config, v))
           \subseteq Members(inst[id].subscribers)

\* ---------------------------------------------------------------- C27
\* C27: clear(name) on an existing channel returns without raising and leaves
\* no TTL or debounce timer of the channel pending, no subscriber in its set
\* and no entry for the name in the registry, whether or not onClear throws
\* and whether or not the storage removal fails; the persisted entry is gone
\* unless the Storage object threw.
C27_ClearCompletes ==
  \A name \in Names :
    channels[name] # 0 =>
      LET id == channels[name]
          r == Clear(Cur, name, 0)
      IN /\ ~r.exc
         /\ TimersOf(r, id) = {}
         /\ Members(r.inst[id].subscribers) = {}
         /\ r.channels[name] = 0
         /\ ~r.inst[id].alive
         /\ inst[id].storage \notin faulty \cup {"memory"}
              => r.store[<<inst[id].storage, inst[id].storageKey>>] = NoEntry

\* clear("a") has run on the durable channel: its onClear threw and the
\* removal of its entry failed, and nothing else of it is left.
C27_Witness ==
  /\ last.op = "clear" /\ last.res = "existing"
  /\ hist[last.ch].onClear = 1
  /\ "local" \in faulty
  /\ store[<<"local", "lithium:a">>] # NoEntry
  /\ channels["a"] = 0
  /\ timers = {}

\* ---------------------------------------------------------------- C28
\* C28: every topic that is in the registry has at least one registered
\* listener, after every on, once, unlisten, off and emit.
C28_NoEmptyTopic ==
  \A eventName \in Topics :
    topics[eventName] # 0 => Registered(lsets[topics[eventName]].members) # {}

\* An emit invoked the only listener of a topic, a once listener, which
\* unregistered itself: the topic has left the registry.
C28_Witness ==
  /\ last.op = "emit" /\ last.ch # 0
  /\ topics[last.name] = 0
  /\ \E w \in DOMAIN lsns :
       lsns[w].set = last.ch /\ lsns[w].options.once /\ lsns[w].hasExecuted

\* ---------------------------------------------------------------- C29
\* onChange, debounce and throttle are all configured.
BothSet(config) ==
  config.onChange # None /\ config.debounce # 0 /\ config.throttle # 0

BothGiven(options) == options.debounce # 0 /\ options.throttle # 0

\* C29: with debounce and throttle both configured, an accepted publish (an
\* emit, for a topic listener) invokes nothing synchronously, leaves the
\* throttle timestamp as it was, and leaves exactly one invocation pending,
\* due one debounce delay later, whatever was pending before; it does the
\* same whatever the throttle timestamp is. The timestamp stays 0, and the
\* pending timer, when it fires, invokes the callback once.
C29_DebounceWinsOverThrottle ==
  /\ \A name \in Names : \A v \in {Num(1), Num(2)} :
       LET id == channels[name]
       IN (id # 0 /\ BothSet(inst[id].config) /\ Accepts(inst[id].config, v)) =>
            LET r == Publish(Cur, name, v, 0)
                q == Publish([Cur EXCEPT !.inst[id].onChangeLastCall = now],
                             name, v, 0)
                pending == {t \in r.timers : t.kind = "debounce" /\ t.ch = id}
            IN /\ Count(r.log, "onChange", id) = 0
               /\ r.inst[id].onChangeLastCall = inst[id].onChangeLastCall
               /\ \E t \in pending :
                    /\ pending = {t}
                    /\ t.due = now + inst[id].config.debounce
                    /\ t.new = TransformedValue(inst[id].config, v)
               /\ q.log = r.log /\ q.timers = r.timers
  /\ \A i \in DOMAIN inst :
       Listed(Cur, i) /\ BothSet(inst[i].config) =>
         /\ inst[i].onChangeLastCall = 0
         /\ Cardinality(Debounced(i)) <= 1
  /\ \A w \in DOMAIN lsns : \A x \in {Num(1)} :
       Listening(Cur, w) /\ BothGiven(lsns[w].options) =>
         LET r == Emit(Cur, lsns[w].name, x, 0)
             q == Emit([Cur EXCEPT !.lsns[w].lastCallTime = now],
                       lsns[w].name, x, 0)
         IN /\ Heards(r, w) = {}
            /\ r.lsns[w].lastCallTime = lsns[w].lastCallTime
            /\ \E t \in ListenerTimers(r, w) :
                 /\ ListenerTimers(r, w) = {t}
                 /\ t.due = now + lsns[w].options.debounce
                 /\ t.new = Transform(lsns[w].options.transform, x)
            /\ q.log = r.log /\ q.timers = r.timers
  /\ \A w \in DOMAIN lsns :
       BothGiven(lsns[w].options) =>
         /\ lsns[w].lastCallTime = 0
         /\ Cardinality(ListenerTimers(Cur, w)) <= 1
  /\ \A t \in timers :
       /\ t.kind = "debounce" /\ BothSet(inst[t.ch].config) =>
            Count(ExecuteCallback(Cur, t.ch, t.new, t.old, 0).log,
                  "onChange", t.ch) = 1
       /\ t.kind = "listen" /\ BothGiven(lsns[t.ln].options) =>
            Cardinality(Heards(ExecuteListener(Cur, t.ln, t.new, 0), t.ln)) = 1

\* Two publishes one millisecond apart led to the one deferred onChange of
\* the channel, and the listener of the topic has had its deferred
\* invocation; neither throttle timestamp was set.
C29_Witness ==
  /\ last.op = "debounce"
  /\ BothSet(inst[last.ch].config)
  /\ hist[last.ch].burstN = 2
  /\ hist[last.ch].chN = 1
  /\ inst[last.ch].onChangeLastCall = 0
  /\ \E w \in DOMAIN lsns :
       /\ BothGiven(lsns[w].options)
       /\ lsns[w].hasExecuted
       /\ lsns[w].lastCallTime = 0

\* ---------------------------------------------------------------- C30
\* C30: on a channel with onChange and debounce, an accepted publish leaves
\* one pending invocation whose arguments are the transformed value of that
\* publish and the value the channel held right before it, and invokes
\* nothing synchronously; the pending invocation always carries the value of
\* the last accepted publish and the value held before that publish, and the
\* one onChange that runs after a burst was invoked with these two.
C30_DebouncedOnChangeArguments ==
  /\ \A name \in Names : \A v \in AllValues :
       LET id == channels[name]
       IN (/\ id # 0
           /\ inst[id].config.onChange # None
           /\ inst[id].config.debounce # 0
           /\ Accepts(inst[id].config, v)) =>
            LET r == Publish(Cur, name, v, 0)
                pending == {t \in r.timers : t.kind = "debounce" /\ t.ch = id}
            IN /\ Count(r.log, "onChange", id) = 0
               /\ \E t \in pending :
                    /\ pending = {t}
                    /\ t.new = TransformedValue(inst[id].config, v)
                    /\ t.old = inst[id].value
  /\ \A i \in DOMAIN inst :
       LET h == hist[i]
       IN (/\ Listed(Cur, i)
           /\ inst[i].config.onChange # None
           /\ inst[i].config.debounce # 0
           /\ h.pubT # 0) =>
            /\ h.since <= 1
            /\ Cardinality(Debounced(i)) <= 1
            /\ \A t \in Debounced(i) : t.new = h.pubV /\ t.old = h.pubOld
            /\ h.since = 1 => h.chV = h.pubV /\ h.chOld = h.pubOld

\* publish 1 and publish 2 one millisecond apart on a channel created without
\* a value (transform doubles): the one onChange ran with (4, 2), 2 being
\* what the first publish of the burst stored.
C30_Witness ==
  /\ last = Call("debounce", "a", 1, "")
  /\ inst[1].config.debounce = D
  /\ hist[1].burstN = 2
  /\ hist[1].chN = 1
  /\ hist[1].chV = Num(4)
  /\ hist[1].chOld = Num(2)
  /\ hist[1].onInit = 1

\* ---------------------------------------------------------------- C31
\* The steps the publish itself made for channel object id, in the order it
\* made them.
StepsOf(r, id, e) == TopOf(r, id, e)

Before(A, B) == \A j \in A : \A k \in B : j < k

\* The order of one accepted publish: value set, storage write, onInit,
\* onChange, subscribers.
InOrder(r, id) ==
  /\ Before(StepsOf(r, id, "set"), StepsOf(r, id, "write"))
  /\ Before(StepsOf(r, id, "write"), StepsOf(r, id, "onInit"))
  /\ Before(StepsOf(r, id, "onInit"), StepsOf(r, id, "onChange"))
  /\ Before(StepsOf(r, id, "onChange"), StepsOf(r, id, "notify"))
  /\ Before(StepsOf(r, id, "set"),
            StepsOf(r, id, "onInit") \cup StepsOf(r, id, "onChange")
              \cup StepsOf(r, id, "notify"))

Observers(r, id) ==
  StepsOf(r, id, "onInit") \cup StepsOf(r, id, "onChange")
    \cup StepsOf(r, id, "notify")

\* Code the publish invoked before step k wrote to the channel or took it
\* out of the registry.
Disturbed(r, id, k) ==
  \/ ~r.log[k].listed
  \/ \E j \in 1..(k - 1) :
       r.log[j].ch = id /\ r.log[j].d > 0 /\ r.log[j].e = "set"

\* C31 as stated: within one accepted publish on an existing channel the
\* order is value set, storage write, onInit, onChange, subscribers, and
\* onInit, the synchronous onChange and every subscriber observe
\* getValue(name) equal to the transformed value.
C31_ObserversSeeTransformed ==
  \A name \in Names : \A v \in AllValues :
    LET id == channels[name]
    IN (id # 0 /\ Accepts(inst[id].config, v)) =>
         LET r == Publish(Cur, name, v, 0)
             fv == Transform(inst[id].config.transform, v)
         IN /\ InOrder(r, id)
            /\ \A k \in Observers(r, id) : r.log[k].held = fv

\* C31, amended: the order holds always, and onInit, the synchronous onChange
\* and every subscriber observe getValue(name) equal to the transformed value
\* unless a hook or subscriber that the publish invoked before them
\* published to the channel or cleared it.
C31_OrderOfPublish ==
  \A name \in Names : \A v \in AllValues :
    LET id == channels[name]
    IN (id # 0 /\ Accepts(inst[id].config, v)) =>
         LET r == Publish(Cur, name, v, 0)
             fv == Transform(inst[id].config.transform, v)
         IN /\ InOrder(r, id)
            /\ Cardinality(StepsOf(r, id, "set")) = 1
            /\ \A k \in Observers(r, id) :
                 ~Disturbed(r, id, k) => r.log[k].held = fv

\* publish("a", 1) is about to run on a session channel that doubles, not
\* initialized yet, with onInit, onChange and two subscribers, the first of
\* which publishes when the value is not 2.
C31_Witness ==
  /\ channels["a"] # 0
  /\ inst[channels["a"]].config.transform = "double"
  /\ inst[channels["a"]].config.onInit # None
  /\ inst[channels["a"]].config.onChange # None
  /\ ~inst[channels["a"]].isInitialized
  /\ inst[channels["a"]].subscribers = <<"c6", "c1">>
  /\ LET r == Publish(Cur, "a", Num(1), 0)
     IN /\ Cardinality(Observers(r, channels["a"])) = 4
        /\ \A k \in Observers(r, channels["a"]) : r.log[k].held = Num(2)

\* ---------------------------------------------------------------- C35
\* The deliveries of the call to subscriber cb of channel object id, whoever
\* published.
DeliveriesTo(r, id, cb) ==
  {k \in DOMAIN r.log : r.log[k].ch = id /\ r.log[k].e = "notify"
                          /\ r.log[k].cb = cb}

LastDelivered(r, id, cb) == r.log[MaxOf(DeliveriesTo(r, id, cb))].v

\* The writes to channel object id made from inside the call.
InnerSets(r, id) ==
  {k \in DOMAIN r.log : r.log[k].ch = id /\ r.log[k].e = "set"
                          /\ r.log[k].d > 0}

StillSubscribed(r, name, id) ==
  IF r.channels[name] = id THEN Members(r.inst[id].subscribers) ELSE {}

\* C35 as stated: when the outermost publish returns, the last value
\* delivered to every still-subscribed subscriber equals getValue(name), also
\* when a subscriber published another value during the notification.
C35_LastDeliveredIsCurrent ==
  \A name \in Names : \A v \in AllValues :
    LET id == channels[name]
    IN (id # 0 /\ Accepts(inst[id].config, v)) =>
         LET r == Publish(Cur, name, v, 0)
         IN \A cb \in StillSubscribed(r, name, id) :
              DeliveriesTo(r, id, cb) # {}
                => LastDelivered(r, id, cb) = GetValue(r, name)

\* C35, amended: when the outermost publish returns, the last value delivered
\* to every still-subscribed subscriber equals getValue(name) if no hook or
\* subscriber published to the channel during the call; if one did,
\* getValue(name) is the value published last, and a subscriber whose turn in
\* the outer notification came after that publish was last given the outer
\* publish's transformed value.
C35_LastDeliveredUnlessRepublished ==
  \A name \in Names : \A v \in AllValues :
    LET id == channels[name]
    IN (id # 0 /\ Accepts(inst[id].config, v)) =>
         LET r == Publish(Cur, name, v, 0)
             fv == Transform(inst[id].config.transform, v)
             sets == Where(r.log, "set", id)
         IN \A cb \in StillSubscribed(r, name, id) :
              DeliveriesTo(r, id, cb) # {} =>
                /\ InnerSets(r, id) = {}
                     => LastDelivered(r, id, cb) = GetValue(r, name)
                /\ GetValue(r, name) = r.log[MaxOf(sets)].v
                /\ (\E k \in DeliveriesTo(r, id, cb) :
                       r.log[k].d = 0 /\ \A j \in InnerSets(r, id) : j < k)
                     => LastDelivered(r, id, cb) = fv

\* publish("a", 1) has returned on a channel whose first subscriber publishes
\* 2 when it is given another value: the value is 2, and the second
\* subscriber is still subscribed.
C35_Witness ==
  /\ last = Call("publish", "a", 1, "accepted")
  /\ inst[1].config = NoConfig
  /\ inst[1].subscribers = <<"c6", "c1">>
  /\ inst[1].value = Num(2)

\* ---------------------------------------------------------------- C32
\* The closure w turns the payload down.
Rejects(w, data) ==
  /\ lsns[w].options.validate # "none"
  /\ ~Validate(lsns[w].options.validate, data)

\* What the call logged for the closure w: its transform and its listener.
Touched(r, w) == {k \in DOMAIN r.log : r.log[k].ln = w}

\* C32: an emission that a listener's validate rejects has no effect on that
\* listener: the listener is not invoked and transform is not applied; a
\* pending debounce timer is neither cancelled nor restarted, the throttle
\* timestamp is not updated, and a once listener stays registered and
\* unfired.
C32_RejectedEmissionHasNoEffect ==
  \A eventName \in Topics : \A data \in AllValues :
    LET r == Emit(Cur, eventName, data, 0)
    IN \A w \in DOMAIN lsns :
         (topics[eventName] # 0 /\ lsns[w].set = topics[eventName]
            /\ w \in Registered(lsets[lsns[w].set].members)
            /\ Rejects(w, data)) =>
           /\ Touched(r, w) = {}
           /\ r.lsns[w] = lsns[w]
           /\ ListenerTimers(r, w) = ListenerTimers(Cur, w)
           /\ w \in Registered(r.lsets[lsns[w].set].members)
           /\ r.topics[eventName] = topics[eventName]

\* An emit has returned one tick after emit("t", 1) started the debounce
\* timer of a listener that accepts positive numbers only, and the timer is
\* pending with its first deadline: the emit was one the listener rejected.
C32_Witness ==
  /\ last.op = "emit"
  /\ \E w \in DOMAIN lsns :
       /\ lsns[w].options.validate = "positive"
       /\ lsns[w].options.debounce = D
       /\ \E t \in timers : t.h = lsns[w].debounceTimer /\ t.due = now + D - 1
       /\ Rejects(w, Num(-1))

\* ---------------------------------------------------------------- C33
\* C33: an unsubscribe function acts only on the channel object it was
\* returned for: when that channel was cleared and a new channel exists
\* under the same name, running the function (a first or a second time) does
\* not clear the new channel, removes none of its subscribers and does not
\* invoke its onClear.
C33_UnsubscribeActsOnOwnChannel ==
  \A u \in unsubs :
    LET old == u[1]
        name == inst[old].name
        new == channels[name]
        r == Unsubscribe(Cur, old, u[2], 0)
    IN (new # 0 /\ new # old) =>
         /\ r.channels[name] = new
         /\ r.inst[new].subscribers = inst[new].subscribers
         /\ Count(r.log, "onClear", new) = 0

\* ---------------------------------------------------------------- C34
\* C34: an unlisten function acts only on its own listener: after off(name)
\* and a new on(name, g), running the unlisten function of a listener that
\* was registered before the off does not remove the topic, and g is still
\* invoked by the next emit.
C34_UnlistenActsOnOwnListener ==
  \A w \in DOMAIN lsns : \A g \in DOMAIN lsns :
    LET name == lsns[w].name
        r == Unlisten(Cur, w)
    IN (topics[name] # 0 /\ lsns[w].set # topics[name]
          /\ lsns[g].set = topics[name]
          /\ g \in Registered(lsets[topics[name]].members)
          /\ w # g) =>
         /\ r.topics[name] = topics[name]
         /\ IF lsns[g].options.debounce = 0
            THEN Heards(Emit(r, name, Num(1), 0), g) # {}
            ELSE ListenerTimers(Emit(r, name, Num(1), 0), g) # {}

\* ---------------------------------------------------------------- C37
\* The debounce timer of the closure w has just run the caller's listener.
DebouncedRun(w) == last = Call("listen", lsns[w].name, w, "")

\* C37: a debounced topic listener that has a pending invocation when
\* off(name) is called is not invoked after the off.  Stated of every step
\* in which a debounce timer runs a listener: the registry holds the Set of
\* that listener, which it does not once off(name) has removed the topic.
C37_OffCancelsPendingInvocation ==
  [][\A w \in DOMAIN lsns : DebouncedRun(w)' => IsRegistered(Cur, w)]_vars

\* ---------------------------------------------------------------- C38
\* C38: the callback of a once listener is entered at most once, also when
\* it throws on its first execution and when it calls emit on its own topic
\* while it runs; in both cases it is unregistered after that first
\* execution.
C38_OnceEnteredAtMostOnce ==
  \A w \in DOMAIN lsns :
    (lsns[w].options.once /\ lsns[w].fn \in {"f2", "f6"}) =>
      /\ lsns[w].calls <= 1
      /\ lsns[w].calls = 1 => ~IsRegistered(Cur, w)
      /\ LET r == Emit(Cur, lsns[w].name, Num(1), 0)
         IN /\ Cardinality(Heards(r, w)) <= 1
            /\ Heards(r, w) # {} => lsns[w].calls = 0 /\ ~IsRegistered(r, w)

\* ---------------------------------------------------------------- C39
\* C39: if validate or transform throws during publish on an existing
\* channel, the exception leaves publish and the channel state is unchanged:
\* value, initialized flag, persisted entry, pending debounce timer and
\* throttle timestamp are what they were, and no onInit, onChange or
\* subscriber is invoked.
C39_ThrowingPublishChangesNothing ==
  \A name \in Names : \A v \in AllValues :
    LET id == channels[name]
    IN (id # 0 /\ PublishThrows(inst[id].config, v)) =>
         LET r == Publish(Cur, name, v, 0)
         IN /\ r.exc
            /\ r.channels = channels
            /\ r.inst[id] = inst[id]
            /\ r.store = store
            /\ r.timers = timers
            /\ \A k \in DOMAIN r.log :
                 r.log[k].e \in {"validate", "transform"}

\* publish("a", null) has thrown on a channel that a publish initialized
\* before: the value is present, and either its debounce timer is pending
\* and its entry is in storage, or its throttle timestamp is set; a
\* subscriber is registered.
C39_Witness ==
  /\ last = Call("publish", "a", 1, "threw")
  /\ inst[1].value # Undef
  /\ inst[1].isInitialized
  /\ Members(inst[1].subscribers) = {"c1"}
  /\ \/ Debounced(1) # {} /\ store[<<"session", "lithium:a">>] # "<none>"
     \/ inst[1].onChangeLastCall # 0

\* ---------------------------------------------------------------- C36
\* C36: for every channel object that is destroyed, onClear is invoked
\* exactly once and clear terminates, also when onClear calls clear, publish
\* or subscribe on the channel that is being cleared.  Stated of clear(name),
\* which every way of destroying a channel goes through.
C36_OnClearExactlyOnce ==
  \A name \in Names :
    channels[name] # 0 =>
      LET id == channels[name]
          r == Clear(Cur, name, 0)
      IN /\ Count(r.log, "onClear", id)
              = (IF inst[id].config.onClear # None THEN 1 ELSE 0)
         /\ ~r.exc
         /\ r.channels[name] = 0

\* ---------------------------------------------------------------- C40
\* channel(name, {storage, storageKey, initialValue: w, onInit}) on the next
\* page load, after publish(name, v) on the channel object id.
Reloaded(id, name, v, w) ==
  Channel([Restart(Publish(Cur, name, v, 0)) EXCEPT !.log = <<>>], name,
          [NoConfig EXCEPT !.storage = inst[id].storage,
                           !.storageKey = inst[id].storageKey,
                           !.initialValue = w, !.onInit = Noop],
          0)

\* C40: the persisted value survives a teardown without clear: after an
\* accepted publish(name, v) on a session or durable channel and a restart
\* that empties the registry and keeps the storage, channel(name, {same tier,
\* same storageKey, initialValue: w}) yields the value the publish stored
\* rather than w, and onInit fires exactly if that value is present.
C40_PersistedValueSurvivesRestart ==
  \A name \in Names : \A v \in AllValues \cup {NaN} : \A w \in AllValues :
    LET id == channels[name]
    IN (id # 0 /\ inst[id].storage \notin faulty \cup {"memory"}
          /\ Accepts(inst[id].config, v)) =>
         LET fv == TransformedValue(inst[id].config, v)
             r == Reloaded(id, name, v, w)
         IN /\ GetValue(r, name) = fv
            /\ Count(r.log, "onInit", r.channels[name])
                 = (IF Present(fv) THEN 1 ELSE 0)


====
